---------------------------- MODULE Spec2Model ----------------------------
(***************************************************************************)
(* Onyria dream journal: the AI-orchestration core.                        *)
(*                                                                         *)
(*   SpecCall  safe_mistral_call (diary/utils.py): one call of the         *)
(*             fallback loop, one action per attempt of the loop.          *)
(*   Spec      analyse_from_voice.event_stream (diary/views.py): the       *)
(*             streamed submission pipeline, one action per segment of     *)
(*             the generator between two yields, over a database of        *)
(*             Dream rows.                                                 *)
(*   SpecPair  the same pipeline, two submissions side by side.            *)
(*   SpecTranscribe  transcribe_audio (diary/utils.py): the retry loop on  *)
(*             the Groq client, the httpx transport after it, and the      *)
(*             temporary file.                                             *)
(*   SpecEmotions  analyze_emotions with softmax (diary/utils.py) applied  *)
(*             to what the call layer can return.                          *)
(*   SpecFunctions  classify_dream, validate_and_fix_interpretation and    *)
(*             interpret_dream (diary/utils.py) applied to bounded inputs. *)
(*   SpecImage  generate_image_from_text (diary/utils.py): one action per  *)
(*             remote call, then the save on the Dream row.                *)
(*   SpecDisconnect  the pipeline of Spec with a client that goes away     *)
(*             while the generator is suspended at a yield.                *)
(*   SpecStats  the statistics functions (diary/utils.py) over a table of  *)
(*             Dream rows that two users create, change and delete.        *)
(*   SpecWindows  the date filter and the two timelines (diary/utils.py)   *)
(*             over rows created on different days, read through periods   *)
(*             and explicit date ranges.                                   *)
(*   SpecRecord  the emotions and interpretation properties of Dream       *)
(*             (diary/models.py): assign, save, reload, read, with the     *)
(*             JSON text written and parsed as json does.                  *)
(***************************************************************************)
EXTENDS Integers, Sequences, FiniteSets, TLC

VARIABLES
    \* ---- safe_mistral_call ----
    smc_pc,          \* "idle" | "loop" | "returned" | "raised"
    model,           \* the primary model safe_mistral_call was entered with
    models_to_try,   \* the attempt sequence built at line 485
    attempt,         \* the loop index of enumerate(models_to_try)
    calls,           \* models passed to mistral_client.chat.complete, in order
    outcomes,        \* what the transport answered to each call, in order
    smc_result,      \* the value returned (a response or None)
    smc_raised,      \* the text of the exception re-raised, "" when none
    \* ---- analyse_from_voice.event_stream ----
    pc,              \* where the generator stands
    request,         \* the request: its user and whether it carries 'audio'
    events,          \* the events yielded so far, in order
    stage_calls,     \* the stage functions invoked so far, in order
    transcription,   \* local: the transcript, None before
    emotions,        \* local: the score mapping, None before
    raw_dominant_key,\* local: the dominant emotion's key, None before
    dream_type,      \* local: the classification, None before
    dream,           \* local: the id of the Dream created, 0 for None
    provider_log,    \* what the providers answered in this submission, in order
    dreams,          \* the Dream table: a set of rows
    next_id,         \* the next primary key of the Dream table
    previous,        \* the finished submission before this one (SpecPair)
    \* ---- transcribe_audio ----
    tr_pc,           \* where transcribe_audio stands
    GROQ_API_KEY,    \* whether the credential is set
    temp_file,       \* the temporary file on disk: "absent" | "exists"
    temp_file_path,  \* local: whether temp_file_path holds the file's name
    tr_attempt,      \* the loop variable of range(1, TRANSCRIBE_MAX_RETRIES + 1)
    last_error,      \* local: the text of the last primary exception, "" before
    primary_calls,   \* what the Groq client answered to each attempt, in order
    secondary_calls, \* what the httpx transport answered, in order
    sleeps,          \* the arguments of time.sleep, in hundredths of a second
    tr_leaving,      \* the return value or exception the finally block lets out
    tr_result,       \* how transcribe_audio ended: returned value or exception
    \* ---- analyze_emotions on its own ----
    em_pc,           \* "off" | "called" | "done"
    em_response,     \* what safe_mistral_call returned to analyze_emotions
    em_outcome,      \* how analyze_emotions ended: returned pair or exception
    \* ---- classify_dream, validate_and_fix_interpretation, interpret_dream ----
    fn_pc,           \* "off" | "called" | "done"
    fn,              \* the function called
    fn_input,        \* its argument
    fn_outcome,      \* how it ended: returned value or exception
    \* ---- generate_image_from_text ----
    img_pc,          \* where generate_image_from_text stands
    prompt_text,     \* its argument prompt_text
    dream_instance,  \* its argument dream_instance: the Dream in memory
    file_id,         \* local: the file id found in the conversation, None before
    image_bytes,     \* local: the bytes downloaded, None before
    img_calls,       \* the calls made to the provider and the database, in order
    img_log,         \* the levels of the records logged on the way out
    img_result,      \* how it ended: returned value or exception
    \* ---- the HTTP connection of a submission ----
    stream,          \* "open" | "client_gone" | "generator_closed"
    \* ---- the statistics of diary/utils.py ----
    now,             \* timezone.now(): a date and the half of the day
    stats            \* what the statistics functions last returned, None before

smcVars == <<smc_pc, model, models_to_try, attempt, calls, outcomes, smc_result, smc_raised>>

localVars == <<transcription, emotions, raw_dominant_key, dream_type, dream>>

dbVars == <<dreams, next_id>>

pipeVars == <<pc, request, events, stage_calls, localVars, provider_log, dbVars, previous>>

trVars == <<tr_pc, GROQ_API_KEY, temp_file, temp_file_path, tr_attempt, last_error,
            primary_calls, secondary_calls, sleeps, tr_leaving, tr_result>>

emVars == <<em_pc, em_response, em_outcome>>

fnVars == <<fn_pc, fn, fn_input, fn_outcome>>

imgVars == <<img_pc, prompt_text, dream_instance, file_id, image_bytes, img_calls,
             img_log, img_result>>

\* what the later specifications add to the state
statsVars == <<now, stats>>

moreVars == <<fnVars, imgVars, stream, statsVars>>

\* the functions that also run on their own
unitVars == <<trVars, emVars, moreVars>>

vars == <<smcVars, pipeVars, unitVars>>

---------------------------------------------------------------------------
(* Python values *)

None == [kind |-> "None"]

\* the response object of mistral_client.chat.complete, told apart by the
\* model that produced it and by its message content
Response(m, c) == [kind |-> "response", model |-> m, content |-> c]

\* str.lower() on the ASCII letters
UpperChars == "ABCDEFGHIJKLMNOPQRSTUVWXYZ"
LowerChars == "abcdefghijklmnopqrstuvwxyz"

LowerChar(c) ==
    IF \E i \in 1..Len(UpperChars) : SubSeq(UpperChars, i, i) = c
    THEN LET i == CHOOSE j \in 1..Len(UpperChars) : SubSeq(UpperChars, j, j) = c
         IN  SubSeq(LowerChars, i, i)
    ELSE c

RECURSIVE Lower(_)
Lower(s) ==
    IF Len(s) = 0 THEN ""
    ELSE LowerChar(SubSeq(s, 1, 1)) \o Lower(SubSeq(s, 2, Len(s)))

\* Python's `k in s` on strings
Contains(s, k) ==
    \E i \in 1..(Len(s) - Len(k) + 1) : SubSeq(s, i, i + Len(k) - 1) = k

---------------------------------------------------------------------------
(* safe_mistral_call: utils.py 458-558 *)

fallback_chain ==
    [m \in {"mistral-large-latest", "mistral-medium",
            "mistral-small-latest", "open-mistral-7b"} |->
        CASE m = "mistral-large-latest" ->
                 <<"mistral-medium", "mistral-small-latest", "open-mistral-7b">>
          [] m = "mistral-medium" -> <<"mistral-small-latest", "open-mistral-7b">>
          [] m = "mistral-small-latest" -> <<"open-mistral-7b">>
          [] m = "open-mistral-7b" -> <<>>]

\* an unknown model is given the weakest model as its fallback
FallbackOfWithDefault(m) ==
    IF m \in DOMAIN fallback_chain THEN fallback_chain[m] ELSE <<"open-mistral-7b">>

\* fallback_chain.get(model, [])
FallbackOf(m) ==
    IF m \in DOMAIN fallback_chain THEN fallback_chain[m] ELSE <<>>

\* the primary tried last
ModelsToTryFallbackFirst(m) == FallbackOf(m) \o <<m>>

\* line 485: models_to_try = [model] + fallback_chain.get(model, [])
ModelsToTry(m) == <<m>> \o FallbackOf(m)

FallbackKeywords ==
    <<"insufficient_quota", "quota_exceeded", "rate_limit",
      "model_not_found", "service_unavailable", "timeout">>

\* the keywords matched against str(e) without .lower()
IsFallbackErrorCaseSensitive(e) ==
    \E i \in DOMAIN FallbackKeywords : Contains(e, FallbackKeywords[i])

\* any(keyword in error_msg for keyword in [...]) with error_msg = str(e).lower()
IsFallbackError(e) ==
    LET error_msg == Lower(e)
    IN  \E i \in DOMAIN FallbackKeywords : Contains(error_msg, FallbackKeywords[i])

\* every exception sends the loop to the next model
OnExceptionAlwaysFallback(e, at, n) ==
    IF at = n - 1 THEN [do |-> "return", value |-> None] ELSE [do |-> "continue"]

\* the last model's recoverable exception is re-raised
OnExceptionRaiseLast(e, at, n) ==
    IF IsFallbackError(e) /\ at # n - 1 THEN [do |-> "continue"]
    ELSE [do |-> "raise", error |-> e]

\* The body of the except branch for the exception text e raised at loop
\* index `at` of a sequence of n models: what the loop does next.
OnException(e, at, n) ==
    IF IsFallbackError(e)
    THEN IF at = n - 1
         THEN [do |-> "return", value |-> None]
         ELSE [do |-> "continue"]
    ELSE [do |-> "raise", error |-> e]

\* The body of the try branch: the response is returned as it is.
OnResponse(response) == [do |-> "return", value |-> response]

\* One iteration of the loop for a transport outcome.
Iteration(outcome, at, n) ==
    IF outcome.ok THEN OnResponse(outcome.response)
    ELSE OnException(outcome.error, at, n)

\* transport outcomes
Ok(response) == [ok |-> TRUE, response |-> response]
Fail(e) == [ok |-> FALSE, error |-> e]

\* primary models safe_mistral_call is entered with: the table's keys and
\* one model the table does not know
PrimaryModels == DOMAIN fallback_chain \cup {"mistral-tiny"}

\* exception texts of the transport
ErrorTexts ==
    {"insufficient_quota", "quota_exceeded", "rate_limit", "model_not_found",
     "service_unavailable", "timeout",
     "QUOTA_EXCEEDED", "Error 429: Rate_Limit reached", "Request Timeout",
     "authentication_failed", "invalid_api_key", "permission_denied",
     "malformed_request"}

---------------------------------------------------------------------------
(* Python values and JSON documents *)

Text(t) == [kind |-> "str", s |-> t]

\* a dict, its items in insertion order
Dict(items) == [kind |-> "dict", items |-> items]

Pair(k, v) == [k |-> k, v |-> v]

\* `v is not None`
IsNotNone(v) == v.kind = "str"

\* bool(v) of a str or None
Truthy(v) == v.kind = "str" /\ v.s # ""

\* JSON values of a provider's message content
Num(n) == [t |-> "number", n |-> n]

Str(t) == [t |-> "string", s |-> t]

Obj(items) == [t |-> "object", items |-> items]

\* message contents: a JSON object, a JSON list, text that is not JSON
JsonObject(items) == [json |-> "object", items |-> items]

\* a list that is not a list of pairs, such as [1, 2]
JsonList == [json |-> "list", pairs |-> FALSE, items |-> <<>>]

\* a list of [key, value] pairs
JsonPairs(items) == [json |-> "list", pairs |-> TRUE, items |-> items]

JsonNull == [json |-> "null"]

JsonNumber == [json |-> "number"]

\* a document that is one string, such as "texte"
JsonString == [json |-> "string"]

\* the JSON value null
Null == [t |-> "null"]

\* how a function ends: a returned value or an exception
Return(v) == [do |-> "return", value |-> v]

Raise(e) == [do |-> "raise", error |-> e]

NotJson == [json |-> "invalid"]

Keys(items) == {items[i].k : i \in DOMAIN items}

\* d[k] of a dict holding k
Get(items, k) == items[CHOOSE i \in DOMAIN items : items[i].k = k].v

---------------------------------------------------------------------------
(* softmax, analyze_emotions, classify_dream: utils.py 229-233, 564-650 *)

\* math.exp(v / 10) in thousandths, v a raw score in tenths, 0..10
ExpMilli(v) ==
    <<1000, 1105, 1221, 1350, 1492, 1649, 1822, 2014, 2226, 2460, 2718>>[v + 1]

\* math.exp of a double, v in tenths: OverflowError above 709.78, 0.0 below
\* -745.13, the table between
math_exp(v) ==
    IF v >= 7098 THEN [overflow |-> TRUE, milli |-> 0]
    ELSE IF v <= -7452 THEN [overflow |-> FALSE, milli |-> 0]
    ELSE [overflow |-> FALSE, milli |-> ExpMilli(v)]

RECURSIVE SumExp(_)
SumExp(exp) ==
    IF exp = <<>> THEN 0 ELSE Head(exp).milli + SumExp(Tail(exp))

\* (x * 1000000) \div total by long division, within 32 bits
Millionths(x, total) ==
    LET high == (x * 1000) \div total
        rest == (x * 1000) % total
    IN  high * 1000 + (rest * 1000) \div total

\* softmax(preds), lines 229-233: the scores in millionths, or the
\* OverflowError of math.exp, or the ZeroDivisionError of v / total
softmax(preds) ==
    LET exp == [i \in DOMAIN preds |-> math_exp(preds[i].v)]
        total == SumExp(exp)
    IN  IF \E i \in DOMAIN exp : exp[i].overflow THEN Raise("math range error")
        ELSE IF total = 0 THEN Raise("float division by zero")
        ELSE Return([i \in DOMAIN preds |->
                        Pair(preds[i].k, Millionths(exp[i].milli, total))])

Digits == "0123456789"

IsDigit(c) == \E i \in 1..10 : SubSeq(Digits, i, i) = c

DigitValue(c) == (CHOOSE i \in 1..10 : SubSeq(Digits, i, i) = c) - 1

\* float(v) of line 608, in tenths: a number as it is, a string of the
\* form "d.d" parsed; ValueError or TypeError for the rest
Float(v) ==
    IF v.t = "number" THEN [ok |-> TRUE, n |-> v.n]
    ELSE IF /\ v.t = "string"
            /\ Len(v.s) = 3
            /\ IsDigit(SubSeq(v.s, 1, 1))
            /\ SubSeq(v.s, 2, 2) = "."
            /\ IsDigit(SubSeq(v.s, 3, 3))
    THEN [ok |-> TRUE,
          n |-> 10 * DigitValue(SubSeq(v.s, 1, 1)) + DigitValue(SubSeq(v.s, 3, 3))]
    ELSE [ok |-> FALSE, n |-> 0]

\* lines 605-610: the entries float() accepts, in order
RECURSIVE Cleaned(_)
Cleaned(items) ==
    IF items = <<>> THEN <<>>
    ELSE LET h == Head(items)
         IN  (IF Float(h.v).ok THEN <<Pair(h.k, Float(h.v).n)>> ELSE <<>>)
                 \o Cleaned(Tail(items))

\* the last maximum
DominantLast(scores) ==
    LET i == CHOOSE i \in DOMAIN scores :
                 /\ \A j \in DOMAIN scores : scores[j].v <= scores[i].v
                 /\ \A j \in (i + 1)..Len(scores) : scores[j].v < scores[i].v
    IN  <<scores[i].k, scores[i].v>>

\* line 617: max(scores.items(), key=lambda x: x[1]), the first maximum
Dominant(scores) ==
    LET i == CHOOSE i \in DOMAIN scores :
                 /\ \A j \in DOMAIN scores : scores[j].v <= scores[i].v
                 /\ \A j \in 1..(i - 1) : scores[j].v < scores[i].v
    IN  <<scores[i].k, scores[i].v>>

NoEmotions == [scores |-> None, dominant |-> None]

\* lines 591-602: a list of pairs becomes a dict, any other list and any
\* value that is not a dict end the analysis
AsMapping(raw) ==
    IF raw.json = "object" THEN [ok |-> TRUE, items |-> raw.items]
    ELSE IF raw.json = "list" /\ raw.pairs THEN [ok |-> TRUE, items |-> raw.items]
    ELSE [ok |-> FALSE, items |-> <<>>]

\* lines 580-626, after safe_mistral_call returned `response`; the
\* exceptions of softmax are not among those caught at line 624
analyze_emotions(response) ==
    IF response = None THEN Return(NoEmotions)
    ELSE LET raw == response.content
         IN  IF raw.json = "invalid" \/ ~AsMapping(raw).ok THEN Return(NoEmotions)
             ELSE LET cleaned == Cleaned(AsMapping(raw).items)
                  IN  IF cleaned = <<>> THEN Return(NoEmotions)
                      ELSE LET scores == softmax(cleaned)
                           IN  IF scores.do = "raise" THEN scores
                               ELSE Return([scores |-> Dict(scores.value),
                                            dominant |-> Dominant(scores.value)])

\* diary/prompt/reference_emotions.json
reference_emotions ==
    [positif |-> <<"joie", "bonheur", "sérénité", "confiance">>,
     negatif |-> <<"peur", "tristesse", "colère", "anxiété">>]

\* [emotions[e] for e in names if e in emotions]
RECURSIVE Present(_, _)
Present(names, items) ==
    IF names = <<>> THEN <<>>
    ELSE (IF Head(names) \in Keys(items) THEN <<Get(items, Head(names))>> ELSE <<>>)
             \o Present(Tail(names), items)

RECURSIVE Sum(_)
Sum(xs) == IF xs = <<>> THEN 0 ELSE Head(xs) + Sum(Tail(xs))

\* len(xs or [1])
LenOr1(xs) == IF xs = <<>> THEN 1 ELSE Len(xs)

\* lines 629-650 with the comparison of line 646 turned into >=
classify_dreamTiesAreNightmares(e) ==
    IF e = None THEN None
    ELSE LET pos == Present(reference_emotions.positif, e.items)
             neg == Present(reference_emotions.negatif, e.items)
         IN  IF Sum(neg) * LenOr1(pos) >= Sum(pos) * LenOr1(neg)
             THEN Text("cauchemar") ELSE Text("rêve")

\* lines 629-650; avg_neg > avg_pos compared without dividing
classify_dream(e) ==
    IF e = None THEN None
    ELSE LET pos == Present(reference_emotions.positif, e.items)
             neg == Present(reference_emotions.negatif, e.items)
         IN  IF Sum(neg) * LenOr1(pos) > Sum(pos) * LenOr1(neg)
             THEN Text("cauchemar") ELSE Text("rêve")

---------------------------------------------------------------------------
(* validate_and_fix_interpretation, interpret_dream: utils.py 236-284, 656-694 *)

expected_keys == <<"Émotionnelle", "Symbolique", "Cognitivo-scientifique", "Freudien">>

Placeholder == "Interprétation non disponible"

\* repr() of a JSON value as json.loads builds it: what str() gives for a
\* value that is not a str
RECURSIVE Repr(_)
Repr(value) ==
    LET RECURSIVE Joined(_)
        Joined(parts) ==
            IF parts = <<>> THEN ""
            ELSE IF Len(parts) = 1 THEN Head(parts)
            ELSE Head(parts) \o ", " \o Joined(Tail(parts))
    IN  CASE value.t = "number" -> ToString(value.n)
          [] value.t = "string" -> "'" \o value.s \o "'"
          [] value.t = "null" -> "None"
          [] value.t = "object" ->
                 "{" \o Joined([i \in DOMAIN value.items |->
                                  "'" \o value.items[i].k \o "': "
                                      \o Repr(value.items[i].v)]) \o "}"

\* lines 258-281 with every dict unwrapped, even one holding neither field
FixedValueUnwrapsAny(items, key) ==
    IF key \in Keys(items)
    THEN LET value == Get(items, key)
         IN  IF value.t = "object" /\ value.items # <<>>
             THEN value.items[1].v
             ELSE IF value.t = "string" THEN value
             ELSE Str(Repr(value))
    ELSE Str("Interprétation non disponible")

\* lines 258-281 for one key
FixedValue(items, key) ==
    IF key \in Keys(items)
    THEN LET value == Get(items, key)
         IN  IF value.t = "object" /\ "contenu" \in Keys(value.items)
             THEN Get(value.items, "contenu")
             ELSE IF value.t = "object" /\ "content" \in Keys(value.items)
             THEN Get(value.items, "content")
             ELSE IF value.t = "string" THEN value
             ELSE Str(Repr(value))
    ELSE Str(Placeholder)

\* type(v).__name__ of a parsed JSON document
TypeName(data) ==
    CASE data.json = "list" -> "list"
      [] data.json = "number" -> "int"
      [] data.json = "string" -> "str"
      [] data.json = "object" -> "dict"

\* lines 236-284: None for None; line 254 calls keys() on whatever else came,
\* and only a dict has keys()
validate_and_fix_interpretation(interpretation_data) ==
    IF interpretation_data.json = "null" THEN Return(None)
    ELSE IF interpretation_data.json # "object"
    THEN Raise("'" \o TypeName(interpretation_data)
                   \o "' object has no attribute 'keys'")
    ELSE Return(Dict([i \in DOMAIN expected_keys |->
                         Pair(expected_keys[i],
                              FixedValue(interpretation_data.items, expected_keys[i]))]))

\* lines 672-694, after safe_mistral_call returned `response`: AttributeError is
\* not among the exceptions caught at line 692
interpret_dream(response) ==
    IF response = None THEN Return(None)
    ELSE LET raw_interpretation == response.content
         IN  IF raw_interpretation.json = "invalid" THEN Return(None)
             ELSE LET validated_interpretation ==
                          validate_and_fix_interpretation(raw_interpretation)
                  IN  IF validated_interpretation.do = "raise"
                      THEN validated_interpretation
                      ELSE IF validated_interpretation.value # None
                      THEN validated_interpretation
                      ELSE Return(None)

---------------------------------------------------------------------------
(* state *)

NoRequest == [user |-> "", has_audio |-> FALSE]

NoPrevious == [request |-> NoRequest, provider_log |-> <<>>, events |-> <<>>]

TrFresh ==
    /\ temp_file = "absent"
    /\ temp_file_path = FALSE
    /\ tr_attempt = 0
    /\ last_error = ""
    /\ primary_calls = <<>>
    /\ secondary_calls = <<>>
    /\ sleeps = <<>>
    /\ tr_leaving = None
    /\ tr_result = None

\* transcribe_audio is not running (the other specifications)
TrOff == tr_pc = "off" /\ GROQ_API_KEY = TRUE /\ TrFresh

\* analyze_emotions is not running on its own (the other specifications)
EmOff == em_pc = "off" /\ em_response = None /\ em_outcome = None

\* the pure functions are not called on their own (the other specifications)
FnOff == fn_pc = "off" /\ fn = "" /\ fn_input = None /\ fn_outcome = None

ImgFresh ==
    /\ file_id = None
    /\ image_bytes = None
    /\ img_calls = <<>>
    /\ img_log = <<>>
    /\ img_result = None

\* generate_image_from_text is not running on its own (the other specifications)
ImgOff == img_pc = "off" /\ prompt_text = "" /\ dream_instance = None /\ ImgFresh

\* the client stays connected (the other specifications)
StreamOpen == stream = "open"

\* 10 March 2025, in the afternoon
NowAtStart == [y |-> 2025, m |-> 3, d |-> 10, h |-> 1]

\* no statistics are asked for (the other specifications)
StatsOff == now = NowAtStart /\ stats = None

MoreOff == FnOff /\ ImgOff /\ StreamOpen /\ StatsOff

TrInit == tr_pc = "idle" /\ GROQ_API_KEY \in BOOLEAN /\ TrFresh

SmcInit ==
    /\ smc_pc = "idle"
    /\ model = ""
    /\ models_to_try = <<>>
    /\ attempt = 0
    /\ calls = <<>>
    /\ outcomes = <<>>
    /\ smc_result = None
    /\ smc_raised = ""

\* no submission is under way
PipeFresh ==
    /\ request = NoRequest
    /\ events = <<>>
    /\ stage_calls = <<>>
    /\ transcription = None
    /\ emotions = None
    /\ raw_dominant_key = None
    /\ dream_type = None
    /\ dream = 0
    /\ provider_log = <<>>
    /\ previous = NoPrevious

PipeInit ==
    /\ PipeFresh
    /\ dreams = {}
    /\ next_id = 1

---------------------------------------------------------------------------
(* safe_mistral_call as a process: utils.py 458-558 *)

\* lines 470-486: entry, the attempt sequence is built
SmcEnter(m) ==
    /\ smc_pc = "idle"
    /\ smc_pc' = "loop"
    /\ model' = m
    /\ models_to_try' = ModelsToTry(m)
    /\ attempt' = 0
    /\ calls' = <<>>
    /\ outcomes' = <<>>
    /\ smc_result' = None
    /\ smc_raised' = ""

\* lines 488-558: one iteration, the transport answering `outcome`; a
\* `continue` out of the last iteration falls through to line 558
SmcIterate(outcome) ==
    /\ smc_pc = "loop"
    /\ attempt < Len(models_to_try)
    /\ LET current_model == models_to_try[attempt + 1]
           step == Iteration(outcome, attempt, Len(models_to_try))
       IN  /\ calls' = Append(calls, current_model)
           /\ outcomes' = Append(outcomes, outcome)
           /\ CASE step.do = "return" ->
                     /\ smc_pc' = "returned"
                     /\ smc_result' = step.value
                     /\ UNCHANGED <<attempt, smc_raised>>
                [] step.do = "continue" /\ attempt + 1 < Len(models_to_try) ->
                     /\ attempt' = attempt + 1
                     /\ UNCHANGED <<smc_pc, smc_result, smc_raised>>
                [] step.do = "continue" /\ attempt + 1 >= Len(models_to_try) ->
                     /\ smc_pc' = "returned"
                     /\ smc_result' = None
                     /\ UNCHANGED <<attempt, smc_raised>>
                [] step.do = "raise" ->
                     /\ smc_pc' = "raised"
                     /\ smc_raised' = step.error
                     /\ UNCHANGED <<attempt, smc_result>>
    /\ UNCHANGED <<model, models_to_try>>

\* message contents the chat provider answers with
EmotionsJoyful == JsonObject(<<Pair("joie", Num(8)), Pair("surprise", Num(2))>>)

EmotionsFearful == JsonObject(<<Pair("peur", Num(9)), Pair("joie", Num(1))>>)

InterpretationFull ==
    JsonObject(<<Pair("Émotionnelle", Str("lecture émotionnelle")),
                 Pair("Symbolique", Str("lecture symbolique")),
                 Pair("Cognitivo-scientifique", Str("lecture cognitive")),
                 Pair("Freudien", Str("lecture freudienne"))>>)

\* lenses wrapped in objects: a 'contenu' that is not text, a 'content' that
\* is, a bare number, and one lens missing
InterpretationNested ==
    JsonObject(<<Pair("Émotionnelle", Obj(<<Pair("contenu", Num(4))>>)),
                 Pair("Symbolique", Obj(<<Pair("content", Str("lecture symbolique"))>>)),
                 Pair("Freudien", Num(3))>>)

ChatContents ==
    {EmotionsJoyful, EmotionsFearful, InterpretationFull, InterpretationNested,
     JsonList, NotJson}

SmcSucceed ==
    /\ pc = "off"
    /\ \E c \in ChatContents :
           /\ smc_pc = "loop" /\ attempt < Len(models_to_try)
           /\ SmcIterate(Ok(Response(models_to_try[attempt + 1], c)))
    /\ UNCHANGED pipeVars
    /\ UNCHANGED unitVars

SmcFail ==
    /\ pc = "off"
    /\ \E e \in ErrorTexts : SmcIterate(Fail(e))
    /\ UNCHANGED pipeVars
    /\ UNCHANGED unitVars

SmcStart ==
    /\ pc = "off"
    /\ \E m \in PrimaryModels : SmcEnter(m)
    /\ UNCHANGED pipeVars
    /\ UNCHANGED unitVars

InitCall == SmcInit /\ PipeInit /\ pc = "off" /\ TrOff /\ EmOff /\ MoreOff

NextCall == SmcStart \/ SmcSucceed \/ SmcFail

SpecCall == InitCall /\ [][NextCall]_vars

---------------------------------------------------------------------------
(* transcribe_audio: utils.py 205-206, 290-452 *)

TRANSCRIBE_MAX_RETRIES == 3

\* TRANSCRIBE_BACKOFF_BASE = 1.5, in tenths
TRANSCRIBE_BACKOFF_BASE_TENTHS == 15

RECURSIVE Pow(_, _)
Pow(b, n) == IF n = 0 THEN 1 ELSE b * Pow(b, n - 1)

\* round(num / den, 0), halves to the even neighbour as Python's round does
RoundHalfEven(num, den) ==
    LET q == num \div den
        r == num % den
    IN  IF 2 * r > den \/ (2 * r = den /\ q % 2 = 1) THEN q + 1 ELSE q

\* the same delay before every retry
SleepLinear(a) == 150

\* line 422: round(TRANSCRIBE_BACKOFF_BASE ** attempt, 2), in hundredths
SleepFor(a) ==
    RoundHalfEven(Pow(TRANSCRIBE_BACKOFF_BASE_TENTHS, a) * 100, Pow(10, a))

RetryKeywords ==
    <<"connection error", "connection reset", "connection aborted", "timeout",
      "temporarily unavailable", "service unavailable", "tls", "ssl", "proxy",
      "rate limit", "503", "502", "429">>

\* lines 290-308
_is_retryable_transcription_error(e) ==
    \E i \in DOMAIN RetryKeywords : Contains(Lower(e), RetryKeywords[i])

\* exception texts of the Groq client
TranscribeErrorTexts ==
    {"Connection error.", "Request Timeout", "Error code: 429 - Rate limit reached",
     "Error code: 401 - Invalid API Key", "Error code: 400 - could not process file"}

\* transcription.text of a successful attempt: a sentence, a very short
\* text, the empty text
TranscriptTexts == {"J'ai rêvé d'un oiseau bleu qui volait", "Oui", ""}

\* what _transcribe_via_httpx meets: a payload with a text, a payload whose
\* text is empty or missing, an exception of the request
SecondaryOutcomes ==
    {Ok("J'ai rêvé d'un oiseau bleu"), Ok(""), Fail("503 Service Unavailable")}

\* the httpx transport is skipped
SecondaryNeverAnswers(o) == None

\* lines 334-357: _transcribe_via_httpx for what the request met
_transcribe_via_httpx(o) ==
    IF o.ok /\ o.response # "" THEN Text(o.response) ELSE None

\* the credential guard is missing
CredentialGuardAbsent(key) == TRUE

\* line 369: `if not GROQ_API_KEY` is false
CredentialPresent(key) == key

\* lines 365-371: entry; without the credential None is returned at once
TrEnter ==
    /\ tr_pc = "idle"
    /\ IF CredentialPresent(GROQ_API_KEY)
       THEN tr_pc' = "write" /\ UNCHANGED tr_result
       ELSE tr_pc' = "done" /\ tr_result' = Return(None)
    /\ UNCHANGED <<GROQ_API_KEY, temp_file, temp_file_path, tr_attempt, last_error,
                   primary_calls, secondary_calls, sleeps, tr_leaving>>
    /\ UNCHANGED <<smcVars, pipeVars, emVars, moreVars>>

\* lines 375-381: NamedTemporaryFile(delete=False) creates the file, then
\* the audio is written and the name kept; when write raises the name is
\* not yet assigned and the exception leaves through the finally block
TrWriteTemp ==
    /\ tr_pc = "write"
    /\ temp_file' = "exists"
    /\ \E written \in BOOLEAN :
        IF written
        THEN /\ temp_file_path' = TRUE
             /\ tr_attempt' = 1
             /\ tr_pc' = "attempt"
             /\ UNCHANGED tr_leaving
        ELSE /\ tr_leaving' = Raise("[Errno 28] No space left on device")
             /\ tr_pc' = "finally"
             /\ UNCHANGED <<temp_file_path, tr_attempt>>
    /\ UNCHANGED <<GROQ_API_KEY, last_error, primary_calls, secondary_calls, sleeps,
                   tr_result>>
    /\ UNCHANGED <<smcVars, pipeVars, emVars, moreVars>>

\* a loop that counts the attempts from 0: one attempt and one sleep more
AfterPrimaryErrorOneMore(e, a) ==
    IF _is_retryable_transcription_error(e) /\ a <= TRANSCRIBE_MAX_RETRIES
    THEN "retry" ELSE "break"

\* lines 418-432: what the except branch of attempt a does with the error e
AfterPrimaryError(e, a) ==
    IF _is_retryable_transcription_error(e) /\ a < TRANSCRIBE_MAX_RETRIES
    THEN "retry" ELSE "break"

\* a transcript under 10 characters counts as a failure
ShortTranscriptIsNone(text) ==
    IF Len(text) < 10 THEN Return(None) ELSE Return(Text(text))

\* lines 400-414: a short transcript is logged, and transcription.text is
\* returned whatever its length
OnTranscript(text) == Return(Text(text))

\* lines 384-432: one attempt on the Groq client
TrPrimary ==
    /\ tr_pc = "attempt"
    /\ \E o \in {Ok(t) : t \in TranscriptTexts} \cup {Fail(e) : e \in TranscribeErrorTexts} :
        /\ primary_calls' = Append(primary_calls, o)
        /\ IF o.ok
           THEN /\ tr_leaving' = OnTranscript(o.response)
                /\ tr_pc' = "finally"
                /\ UNCHANGED <<tr_attempt, last_error, sleeps>>
           ELSE /\ last_error' = o.error
                /\ IF AfterPrimaryError(o.error, tr_attempt) = "retry"
                   THEN /\ sleeps' = Append(sleeps, SleepFor(tr_attempt))
                        /\ tr_attempt' = tr_attempt + 1
                        /\ UNCHANGED tr_pc
                   ELSE /\ tr_pc' = "fallback"
                        /\ UNCHANGED <<tr_attempt, sleeps>>
                /\ UNCHANGED tr_leaving
    /\ UNCHANGED <<GROQ_API_KEY, temp_file, temp_file_path, secondary_calls, tr_result>>
    /\ UNCHANGED <<smcVars, pipeVars, emVars, moreVars>>

\* lines 434-442: the httpx transport as the last resort
TrSecondary ==
    /\ tr_pc = "fallback"
    /\ \E o \in SecondaryOutcomes :
        /\ secondary_calls' = Append(secondary_calls, o)
        /\ tr_leaving' = Return(_transcribe_via_httpx(o))
    /\ tr_pc' = "finally"
    /\ UNCHANGED <<GROQ_API_KEY, temp_file, temp_file_path, tr_attempt, last_error,
                   primary_calls, sleeps, tr_result>>
    /\ UNCHANGED <<smcVars, pipeVars, emVars, moreVars>>

\* lines 446-448: os.unlink when temp_file_path is set and the file exists
Unlinked(path, file) == IF path /\ file = "exists" THEN "absent" ELSE file

\* lines 444-452: the finally block, then the value or the exception leaves
TrFinally ==
    /\ tr_pc = "finally"
    /\ temp_file' = Unlinked(temp_file_path, temp_file)
    /\ tr_result' = tr_leaving
    /\ tr_pc' = "done"
    /\ UNCHANGED <<GROQ_API_KEY, temp_file_path, tr_attempt, last_error,
                   primary_calls, secondary_calls, sleeps, tr_leaving>>
    /\ UNCHANGED <<smcVars, pipeVars, emVars, moreVars>>

InitTranscribe == SmcInit /\ PipeInit /\ pc = "off" /\ TrInit /\ EmOff /\ MoreOff

NextTranscribe == TrEnter \/ TrWriteTemp \/ TrPrimary \/ TrSecondary \/ TrFinally

SpecTranscribe == InitTranscribe /\ [][NextTranscribe]_vars

---------------------------------------------------------------------------
(* analyze_emotions on its own: utils.py 564-626 *)

\* the most entries a content carries
MaxEntries == 2

EmotionKeys == {"joie", "peur", "tristesse"}

\* values of an entry: scores, a score past the range of math.exp on either
\* side, a score written as text, text that is no number, null
EmotionValues ==
    {Num(2), Num(8), Num(7100), Num(-7500), Str("0.5"), Str("élevé"), Null}

\* the entries of a content, their keys distinct
EntryLists ==
    UNION {{items \in [1..n -> {Pair(k, v) : k \in EmotionKeys, v \in EmotionValues}] :
                \A i, j \in 1..n : i # j => items[i].k # items[j].k} :
           n \in 0..MaxEntries}

\* what safe_mistral_call hands to analyze_emotions: None, or a response
\* whose content is an object, a list of pairs, another list, a bare number,
\* null, or no JSON
EmotionResponses ==
    {None} \cup
    {Response("mistral-small-latest", c) :
        c \in {JsonObject(items) : items \in EntryLists}
              \cup {JsonPairs(items) : items \in EntryLists}
              \cup {JsonList, JsonNumber, JsonNull, NotJson}}

EmInit ==
    /\ em_pc = "called"
    /\ em_response \in EmotionResponses
    /\ em_outcome = None

\* lines 580-626: the rest of analyze_emotions once the call layer answered
EmAnalyze ==
    /\ em_pc = "called"
    /\ em_outcome' = analyze_emotions(em_response)
    /\ em_pc' = "done"
    /\ UNCHANGED <<em_response, smcVars, pipeVars, trVars, moreVars>>

InitEmotions == SmcInit /\ PipeInit /\ pc = "off" /\ TrOff /\ EmInit /\ MoreOff

NextEmotions == EmAnalyze

SpecEmotions == InitEmotions /\ [][NextEmotions]_vars

---------------------------------------------------------------------------
(* classify_dream, validate_and_fix_interpretation and interpret_dream on    *)
(* their own: utils.py 629-650, 236-284, 656-694                             *)

\* the largest score of a mapping handed to classify_dream
MaxScore == 3

\* two positive reference emotions, two negative ones, one the reference
\* file does not list
EmotionNames == <<"joie", "sérénité", "peur", "tristesse", "surprise">>

\* the items of the mapping that holds names[i] with score f[i], f[i] >= 0
RECURSIVE ItemsOf(_, _)
ItemsOf(names, f) ==
    IF names = <<>> THEN <<>>
    ELSE (IF Head(f) >= 0 THEN <<Pair(Head(names), Head(f))>> ELSE <<>>)
             \o ItemsOf(Tail(names), Tail(f))

\* the arguments of classify_dream: None and every mapping of some of the
\* names to a score
ClassifyInputs ==
    {None} \cup
    {Dict(ItemsOf(EmotionNames, f)) :
        f \in [DOMAIN EmotionNames -> (-1)..MaxScore]}

\* what a lens of the provider's JSON can hold: text, a number, null, a
\* nested object with 'contenu', with 'content', with both, with a 'contenu'
\* that is no text, with neither
LensValues ==
    {Str("un rêve de liberté"), Num(3), Null,
     Obj(<<Pair("contenu", Str("texte a"))>>),
     Obj(<<Pair("content", Str("texte b"))>>),
     Obj(<<Pair("contenu", Str("texte a")), Pair("content", Str("texte b"))>>),
     Obj(<<Pair("contenu", Num(7))>>),
     Obj(<<Pair("autre", Str("c"))>>)}

Absent == [t |-> "absent"]

RECURSIVE LensItems(_, _)
LensItems(keys, f) ==
    IF keys = <<>> THEN <<>>
    ELSE (IF Head(f) # Absent THEN <<Pair(Head(keys), Head(f))>> ELSE <<>>)
             \o LensItems(Tail(keys), Tail(f))

\* JSON objects holding some of the four lenses and, or not, a key that is
\* no lens
LensObjects ==
    {JsonObject(extra \o LensItems(expected_keys, f)) :
        extra \in {<<>>, <<Pair("Résumé", Str("court"))>>},
        f \in [DOMAIN expected_keys -> LensValues \cup {Absent}]}

\* what json.loads can hand to validate_and_fix_interpretation
ParsedDocuments == LensObjects \cup {JsonNull, JsonList, JsonNumber, JsonString}

\* what safe_mistral_call hands to interpret_dream
InterpretationResponses ==
    {None} \cup
    {Response("mistral-large-latest", c) : c \in ParsedDocuments \cup {NotJson}}

FnInit ==
    /\ fn_pc = "called"
    /\ \/ fn = "classify_dream" /\ fn_input \in ClassifyInputs
       \/ fn = "validate_and_fix_interpretation" /\ fn_input \in ParsedDocuments
       \/ fn = "interpret_dream" /\ fn_input \in InterpretationResponses
    /\ fn_outcome = None

\* lines 629-650
ApplyClassify ==
    /\ fn_pc = "called" /\ fn = "classify_dream"
    /\ fn_outcome' = Return(classify_dream(fn_input))
    /\ fn_pc' = "done"
    /\ UNCHANGED <<fn, fn_input, smcVars, pipeVars, trVars, emVars, imgVars, stream,
                   statsVars>>

\* lines 236-284
ApplyValidate ==
    /\ fn_pc = "called" /\ fn = "validate_and_fix_interpretation"
    /\ fn_outcome' = validate_and_fix_interpretation(fn_input)
    /\ fn_pc' = "done"
    /\ UNCHANGED <<fn, fn_input, smcVars, pipeVars, trVars, emVars, imgVars, stream,
                   statsVars>>

\* lines 672-694: the rest of interpret_dream once the call layer answered
ApplyInterpret ==
    /\ fn_pc = "called" /\ fn = "interpret_dream"
    /\ fn_outcome' = interpret_dream(fn_input)
    /\ fn_pc' = "done"
    /\ UNCHANGED <<fn, fn_input, smcVars, pipeVars, trVars, emVars, imgVars, stream,
                   statsVars>>

InitFunctions ==
    SmcInit /\ PipeInit /\ pc = "off" /\ TrOff /\ EmOff /\ FnInit /\ ImgOff
        /\ StreamOpen /\ StatsOff

NextFunctions == ApplyClassify \/ ApplyValidate \/ ApplyInterpret

SpecFunctions == InitFunctions /\ [][NextFunctions]_vars

---------------------------------------------------------------------------
(* the Dream table: diary/models.py *)

\* the image setter's data URL for PNG bytes
ImageUrl == "data:image/png;base64,iVBORw0KGgo="

\* emotions.setter, interpretation.setter: json.dumps of a dict, else NULL
DumpsOrNull(value) ==
    IF value.kind = "dict" THEN [kind |-> "json", doc |-> value] ELSE None

\* the emotions and interpretation getters
LoadsOrEmpty(column) ==
    IF column.kind = "json" THEN column.doc ELSE Dict(<<>>)

\* Dream.objects.create(...) of views.py 144-152, with the primary key id
NewDream(id, user, t, e, dominant, type) ==
    [id |-> id, user |-> user, transcription |-> t,
     emotions_json |-> DumpsOrNull(e), dominant_emotion |-> dominant,
     dream_type |-> type, interpretation_json |-> DumpsOrNull(Dict(<<>>)),
     image_base64 |-> None, is_analyzed |-> TRUE, created_at |-> now]

Row(id) == CHOOSE d \in dreams : d.id = id

Exists(id) == \E d \in dreams : d.id = id

\* instance.save(): the row of this id is rewritten
Saved(table, row) == {d \in table : d.id # row.id} \cup {row}

\* the row is left in the table
DeletedNothing(table, id) == table

\* instance.delete()
Deleted(table, id) == {d \in table : d.id # id}

---------------------------------------------------------------------------
(* analyse_from_voice.event_stream: views.py 106-206 *)

DREAM_ERROR_MESSAGE ==
    "Les fils de votre rêve se sont emmêlés... Laissez-moi démêler ce songe et tentez une nouvelle analyse."

\* format_emotion_label, format_dream_type_label: the display label of a key
FormatLabel(key) == "Label(" \o key \o ")"

\* the events, as the dicts passed to json.dumps
ErrorEvent == [step |-> "error", message |-> DREAM_ERROR_MESSAGE]

\* the exception's text sent as the message
ExceptEventWithText(e) == [step |-> "error", message |-> e]

\* line 206: the event of the except block, e the exception caught
ExceptEvent(e) == ErrorEvent

TranscriptionEvent(t) == [step |-> "transcription", data |-> [transcription |-> t]]

EmotionsEvent(dominant, type) ==
    [step |-> "emotions",
     data |-> [dominant_emotion |-> FormatLabel(dominant), dream_type |-> FormatLabel(type)]]

ImageEvent(path) == [step |-> "image", data |-> [image_path |-> path]]

InterpretationEvent(i) == [step |-> "interpretation", data |-> [interpretation |-> i]]

CompleteEvent == [step |-> "complete", success |-> TRUE]

Users == {"alice", "bob"}

\* what transcribe_audio gives back: a transcript, an empty transcript,
\* None, or an exception that escapes it
TranscribeOutcomes ==
    {Return(Text("J'ai rêvé d'un oiseau bleu qui volait")), Return(Text("")),
     Return(None), Raise("[Errno 28] No space left on device")}

\* what generate_image_from_text does: the image saved on the row and True,
\* True with empty bytes (nothing stored), or False
ImageOutcomes ==
    {[ok |-> TRUE, image |-> Text(ImageUrl)], [ok |-> TRUE, image |-> None],
     [ok |-> FALSE, image |-> None]}

\* exception texts of the chat transport within a submission
PipelineErrorTexts ==
    {"quota_exceeded", "authentication_failed", "malformed_request"}

\* one entry of provider_log: which call, what came back, the error text
LogEntry(key, ok, what, e) == [key |-> key, ok |-> ok, what |-> what, error |-> e]

Shape(entry) == [key |-> entry.key, ok |-> entry.ok, what |-> entry.what]

\* In a second submission the providers answer each call the first one
\* made with an outcome of the same shape; the error text is free.
SameWorld(key, ok, what) ==
    \A i \in DOMAIN previous.provider_log :
        previous.provider_log[i].key = key =>
            Shape(previous.provider_log[i]) = [key |-> key, ok |-> ok, what |-> what]

\* no except block: the exception leaves the generator, nothing is deleted
\* and nothing is sent
ExceptEscapes(e) ==
    /\ dreams' = dreams
    /\ events' = events
    /\ pc' = "closed"

\* lines 197-206: the except block; dream.delete() when a dream was created
Except(e) ==
    /\ dreams' = Deleted(dreams, dream)
    /\ events' = Append(events, ExceptEvent(e))
    /\ pc' = "closed"

\* a POST arrives and the generator is created
ReceiveRequest ==
    /\ pc = "idle"
    /\ \E u \in Users, a \in BOOLEAN : request' = [user |-> u, has_audio |-> a]
    /\ pc' = "start"
    /\ UNCHANGED <<smcVars, events, stage_calls, localVars, provider_log, dbVars, previous>>
    /\ UNCHANGED unitVars

\* lines 110-113: no 'audio' in request.FILES
NoAudio ==
    /\ pc = "start"
    /\ ~request.has_audio
    /\ events' = Append(events, ErrorEvent)
    /\ pc' = "closed"
    /\ UNCHANGED <<smcVars, request, stage_calls, localVars, provider_log, dbVars, previous>>
    /\ UNCHANGED unitVars

\* lines 115-125: transcribe_audio, then the transcription event or the error
Transcribe ==
    /\ pc = "start"
    /\ request.has_audio
    /\ \E o \in TranscribeOutcomes :
        /\ SameWorld("transcribe_audio", o.do = "return",
                     IF o.do = "return" THEN o.value ELSE None)
        /\ stage_calls' = Append(stage_calls, "transcribe_audio")
        /\ provider_log' = Append(provider_log,
               LogEntry("transcribe_audio", o.do = "return",
                        IF o.do = "return" THEN o.value ELSE None,
                        IF o.do = "raise" THEN o.error ELSE ""))
        /\ IF o.do = "raise"
           THEN Except(o.error) /\ UNCHANGED <<transcription, next_id>>
           ELSE /\ transcription' = o.value
                /\ IF ~Truthy(o.value)
                   THEN events' = Append(events, ErrorEvent) /\ pc' = "closed"
                   ELSE /\ events' = Append(events, TranscriptionEvent(o.value.s))
                        /\ pc' = "transcribed"
                /\ UNCHANGED dbVars
    /\ UNCHANGED <<smcVars, request, emotions, raw_dominant_key, dream_type, dream, previous>>
    /\ UNCHANGED unitVars

\* line 128, into analyze_emotions up to its safe_mistral_call (utils.py 574)
EnterEmotions ==
    /\ pc = "transcribed"
    /\ stage_calls' = Append(stage_calls, "analyze_emotions")
    /\ SmcEnter("mistral-small-latest")
    /\ pc' = "emotions_call"
    /\ UNCHANGED <<request, events, localVars, provider_log, dbVars, previous>>
    /\ UNCHANGED unitVars

\* line 170, into interpret_dream up to its safe_mistral_call (utils.py 666)
EnterInterpretation ==
    /\ pc = "image_sent"
    /\ stage_calls' = Append(stage_calls, "interpret_dream")
    /\ SmcEnter("mistral-large-latest")
    /\ pc' = "interpretation_call"
    /\ UNCHANGED <<request, events, localVars, provider_log, dbVars, previous>>
    /\ UNCHANGED unitVars

ChatKey == (IF pc = "emotions_call" THEN "emotions:" ELSE "interpretation:")
               \o models_to_try[attempt + 1]

\* mistral_client.chat.complete answers within a submission
ChatSucceed ==
    /\ pc \in {"emotions_call", "interpretation_call"}
    /\ smc_pc = "loop" /\ attempt < Len(models_to_try)
    /\ \E c \in ChatContents :
           /\ SameWorld(ChatKey, TRUE, c)
           /\ SmcIterate(Ok(Response(models_to_try[attempt + 1], c)))
           /\ provider_log' = Append(provider_log, LogEntry(ChatKey, TRUE, c, ""))
    /\ UNCHANGED <<pc, request, events, stage_calls, localVars, dbVars, previous>>
    /\ UNCHANGED unitVars

\* mistral_client.chat.complete raises within a submission
ChatFail ==
    /\ pc \in {"emotions_call", "interpretation_call"}
    /\ smc_pc = "loop" /\ attempt < Len(models_to_try)
    /\ \E e \in PipelineErrorTexts :
           /\ SameWorld(ChatKey, FALSE, None)
           /\ SmcIterate(Fail(e))
           /\ provider_log' = Append(provider_log, LogEntry(ChatKey, FALSE, None, e))
    /\ UNCHANGED <<pc, request, events, stage_calls, localVars, dbVars, previous>>
    /\ UNCHANGED unitVars

\* lines 128-141: analyze_emotions comes back; classification; the emotions
\* event, or the error
ResumeEmotions ==
    /\ pc = "emotions_call"
    /\ smc_pc \in {"returned", "raised"}
    /\ smc_pc' = "idle"
    /\ IF smc_pc = "raised" \/ analyze_emotions(smc_result).do = "raise"
       THEN /\ Except(IF smc_pc = "raised" THEN smc_raised
                      ELSE analyze_emotions(smc_result).error)
            /\ UNCHANGED <<stage_calls, localVars, next_id>>
       ELSE LET r == analyze_emotions(smc_result).value
            IN  IF r.scores = None
                THEN /\ events' = Append(events, ErrorEvent)
                     /\ pc' = "closed"
                     /\ UNCHANGED <<stage_calls, localVars, dbVars>>
                ELSE /\ emotions' = r.scores
                     /\ stage_calls' = Append(stage_calls, "classify_dream")
                     /\ dream_type' = classify_dream(r.scores)
                     /\ raw_dominant_key' = Text(r.dominant[1])
                     /\ events' = Append(events,
                            EmotionsEvent(r.dominant[1], classify_dream(r.scores).s))
                     /\ pc' = "emotions_sent"
                     /\ UNCHANGED <<transcription, dream, dbVars>>
    /\ UNCHANGED <<model, models_to_try, attempt, calls, outcomes, smc_result, smc_raised>>
    /\ UNCHANGED <<request, provider_log, previous>>
    /\ UNCHANGED unitVars

\* lines 144-156: the Dream is created, generate_image_from_text is called
CreateDream ==
    /\ pc = "emotions_sent"
    /\ dreams' = dreams \cup
           {NewDream(next_id, request.user, transcription.s, emotions,
                     raw_dominant_key, dream_type)}
    /\ dream' = next_id
    /\ next_id' = next_id + 1
    /\ stage_calls' = Append(stage_calls, "generate_image_from_text")
    /\ pc' = "image_call"
    /\ UNCHANGED <<smcVars, request, events, transcription, emotions,
                   raw_dominant_key, dream_type, provider_log, previous>>
    /\ UNCHANGED unitVars

\* no event when generation failed
ImageEventsSkipFailure(o) ==
    IF o.ok THEN <<ImageEvent(o.image)>> ELSE <<>>

\* the error event when generation failed
ImageEventsErrorOnFailure(o) ==
    IF o.ok THEN <<ImageEvent(o.image)>> ELSE <<ErrorEvent>>

\* lines 157-167: the image event, with the row's image_url after
\* refresh_from_db when generation succeeded and with None otherwise
ImageEvents(o) == <<ImageEvent(IF o.ok THEN o.image ELSE None)>>

\* utils.py 739-747 and views.py 157-167: generate_image_from_text comes
\* back; the image event
GenerateImage ==
    /\ pc = "image_call"
    /\ \E o \in ImageOutcomes :
        /\ SameWorld("generate_image_from_text", o.ok, o.image)
        /\ provider_log' = Append(provider_log,
               LogEntry("generate_image_from_text", o.ok, o.image, ""))
        /\ dreams' = IF o.ok /\ o.image # None
                     THEN Saved(dreams, [Row(dream) EXCEPT !.image_base64 = o.image])
                     ELSE dreams
        /\ events' = events \o ImageEvents(o)
    /\ pc' = "image_sent"
    /\ UNCHANGED <<smcVars, request, stage_calls, localVars, next_id, previous>>
    /\ UNCHANGED unitVars

\* lines 170-187: interpret_dream comes back; the dream is deleted and the
\* error sent, or the interpretation is saved and sent
ResumeInterpretation ==
    /\ pc = "interpretation_call"
    /\ smc_pc \in {"returned", "raised"}
    /\ smc_pc' = "idle"
    /\ LET r == IF smc_pc = "raised" THEN Raise(smc_raised)
                ELSE interpret_dream(smc_result)
       IN  IF r.do = "raise" THEN Except(r.error)
           ELSE IF r.value = None
           THEN /\ dreams' = Deleted(dreams, dream)
                /\ events' = Append(events, ErrorEvent)
                /\ pc' = "closed"
           ELSE /\ dreams' = Saved(dreams,
                       [Row(dream) EXCEPT !.interpretation_json = DumpsOrNull(r.value)])
                /\ events' = Append(events, InterpretationEvent(r.value))
                /\ pc' = "interpretation_sent"
    /\ UNCHANGED <<model, models_to_try, attempt, calls, outcomes, smc_result, smc_raised>>
    /\ UNCHANGED <<request, stage_calls, localVars, provider_log, next_id, previous>>
    /\ UNCHANGED unitVars

\* the generator ends after the interpretation event without a last event
CompleteSilently ==
    /\ pc = "interpretation_sent"
    /\ pc' = "closed"
    /\ UNCHANGED <<smcVars, request, events, stage_calls, localVars, provider_log,
                   dbVars, previous>>
    /\ UNCHANGED unitVars

\* lines 189-195: the complete event
Complete ==
    /\ pc = "interpretation_sent"
    /\ events' = Append(events, CompleteEvent)
    /\ pc' = "closed"
    /\ UNCHANGED <<smcVars, request, stage_calls, localVars, provider_log, dbVars, previous>>
    /\ UNCHANGED unitVars

\* the same request is posted again once the first submission has ended
SecondRequest ==
    /\ pc = "closed"
    /\ previous = NoPrevious
    /\ previous' = [request |-> request, provider_log |-> provider_log, events |-> events]
    /\ events' = <<>>
    /\ stage_calls' = <<>>
    /\ transcription' = None
    /\ emotions' = None
    /\ raw_dominant_key' = None
    /\ dream_type' = None
    /\ dream' = 0
    /\ provider_log' = <<>>
    /\ pc' = "start"
    /\ UNCHANGED <<smcVars, request, dbVars>>
    /\ UNCHANGED unitVars

Init == SmcInit /\ PipeInit /\ pc = "idle" /\ TrOff /\ EmOff /\ MoreOff

NextPipe ==
    \/ ReceiveRequest \/ NoAudio \/ Transcribe
    \/ EnterEmotions \/ ChatSucceed \/ ChatFail \/ ResumeEmotions
    \/ CreateDream \/ GenerateImage
    \/ EnterInterpretation \/ ResumeInterpretation \/ Complete

Next == NextPipe

Spec == Init /\ [][Next]_vars

NextPair == NextPipe \/ SecondRequest

SpecPair == Init /\ [][NextPair]_vars

---------------------------------------------------------------------------
(* the submission pipeline and its client: views.py 106-210 *)

\* where the generator stands suspended at a yield with code left to run:
\* lines 123, 141, 160-167, 187
SuspendedAtYield == {"transcribed", "emotions_sent", "image_sent", "interpretation_sent"}

\* the client closes the connection while the submission is in progress
ClientDisconnects ==
    /\ stream = "open"
    /\ pc \notin {"idle", "closed"}
    /\ stream' = "client_gone"
    /\ UNCHANGED <<smcVars, pipeVars, trVars, emVars, fnVars, imgVars, statsVars>>

\* line 208: the generator runs only while the server iterates the
\* StreamingHttpResponse. A server that finds the client gone closes the
\* response, and with it the generator: GeneratorExit is raised at the yield
\* where it stands, `except Exception` (line 197) does not catch it, and
\* there is no finally block
ServerClosesStream ==
    /\ stream = "client_gone"
    /\ pc \in SuspendedAtYield
    /\ stream' = "generator_closed"
    /\ pc' = "closed"
    /\ UNCHANGED <<smcVars, request, events, stage_calls, localVars, provider_log,
                   dbVars, previous, trVars, emVars, fnVars, imgVars, statsVars>>

NextDisconnect == NextPipe \/ ClientDisconnects \/ ServerClosesStream

SpecDisconnect == Init /\ [][NextDisconnect]_vars

---------------------------------------------------------------------------
(* dates: what datetime gives to get_date_filter_queryset and the timelines *)

IsLeap(y) == (y % 4 = 0 /\ y % 100 # 0) \/ y % 400 = 0

DaysInMonth(y, m) ==
    IF m = 2 THEN (IF IsLeap(y) THEN 29 ELSE 28)
    ELSE IF m \in {4, 6, 9, 11} THEN 30 ELSE 31

RECURSIVE DaysBeforeMonth(_, _)
DaysBeforeMonth(y, m) ==
    IF m = 1 THEN 0 ELSE DaysBeforeMonth(y, m - 1) + DaysInMonth(y, m - 1)

\* date.toordinal(): the days from 1 January of year 1
Ordinal(date) ==
    LET before == date.y - 1
    IN  365 * before + before \div 4 - before \div 100 + before \div 400
            + DaysBeforeMonth(date.y, date.m) + date.d

\* a datetime on the scale of half days, which is what the model tells apart
HalfDays(t) == 2 * Ordinal(t) + t.h

\* int() of a string of digits
RECURSIVE Number(_)
Number(text) ==
    IF text = "" THEN 0
    ELSE 10 * Number(SubSeq(text, 1, Len(text) - 1))
             + DigitValue(SubSeq(text, Len(text), Len(text)))

AllDigits(text) == \A i \in 1..Len(text) : IsDigit(SubSeq(text, i, i))

\* a parser that checks the shape YYYY-MM-DD and not the calendar
strptimeAnyDay(text) ==
    IF /\ Len(text) = 10
       /\ AllDigits(SubSeq(text, 1, 4)) /\ SubSeq(text, 5, 5) = "-"
       /\ AllDigits(SubSeq(text, 6, 7)) /\ SubSeq(text, 8, 8) = "-"
       /\ AllDigits(SubSeq(text, 9, 10))
    THEN Return([y |-> Number(SubSeq(text, 1, 4)), m |-> Number(SubSeq(text, 6, 7)),
                 d |-> Number(SubSeq(text, 9, 10))])
    ELSE Raise("time data does not match format '%Y-%m-%d'")

\* datetime.strptime(text, '%Y-%m-%d').date(): four digits, one or two digits,
\* one or two digits, and a day that exists; ValueError for the rest
strptime(text) ==
    LET shapes == {<<lm, ld>> \in {1, 2} \X {1, 2} :
                      /\ Len(text) = 6 + lm + ld
                      /\ AllDigits(SubSeq(text, 1, 4))
                      /\ SubSeq(text, 5, 5) = "-"
                      /\ AllDigits(SubSeq(text, 6, 5 + lm))
                      /\ SubSeq(text, 6 + lm, 6 + lm) = "-"
                      /\ AllDigits(SubSeq(text, 7 + lm, 6 + lm + ld))}
    IN  IF shapes = {} THEN Raise("time data does not match format '%Y-%m-%d'")
        ELSE LET shape == CHOOSE x \in shapes : TRUE
                 y == Number(SubSeq(text, 1, 4))
                 m == Number(SubSeq(text, 6, 5 + shape[1]))
                 d == Number(SubSeq(text, 7 + shape[1], 6 + shape[1] + shape[2]))
             IN  IF y = 0 \/ m \notin 1..12 \/ d = 0
                 THEN Raise("time data does not match format '%Y-%m-%d'")
                 ELSE IF d > DaysInMonth(y, m)
                 THEN Raise("day is out of range for month")
                 ELSE Return([y |-> y, m |-> m, d |-> d])

\* date.strftime('%Y-%m-%d') of a year of four digits
strftime(date) ==
    LET Two(n) == IF n < 10 THEN "0" \o ToString(n) ELSE ToString(n)
    IN  ToString(date.y) \o "-" \o Two(date.m) \o "-" \o Two(date.d)

---------------------------------------------------------------------------
(* the statistics: utils.py 773-1174 *)

\* a queryset in its order, Meta.ordering = ['-date'] (models.py 61): the
\* newest row first, the rows being created one after the other
RECURSIVE NewestFirst(_)
NewestFirst(rows) ==
    IF rows = {} THEN <<>>
    ELSE LET newest == CHOOSE d \in rows : \A other \in rows : other.id <= d.id
         IN  <<newest>> \o NewestFirst(rows \ {newest})

\* Counter(values): the values with their counts, in the order of their first
\* appearance
RECURSIVE Counter(_)
Counter(values) ==
    IF values = <<>> THEN <<>>
    ELSE LET counted == Counter(SubSeq(values, 1, Len(values) - 1))
             last == values[Len(values)]
         IN  IF last \in Keys(counted)
             THEN [i \in DOMAIN counted |->
                      IF counted[i].k = last THEN Pair(last, counted[i].v + 1)
                      ELSE counted[i]]
             ELSE Append(counted, Pair(last, 1))

\* Counter.most_common(1)[0]: the first entry of the greatest count
most_common(counter) ==
    counter[CHOOSE i \in DOMAIN counter :
                /\ \A j \in DOMAIN counter : counter[j].v <= counter[i].v
                /\ \A j \in 1..(i - 1) : counter[j].v < counter[i].v]

\* int((count / total) * 100): the percentage cut, not rounded
PercentCut(count, total) == (100 * count) \div total

\* round((count / total) * 100)
Percent(count, total) == RoundHalfEven(100 * count, total)

\* round((count / total) * 100, 1), in tenths of a percent
PercentTenths(count, total) == RoundHalfEven(1000 * count, total)

\* every row of the table, whoever owns it
objects_filterAnyUser(user) == dreams

\* Dream.objects.filter(user=user): lines 884, 945, 1015
objects_filter(user) == {d \in dreams : d.user = user}

\* a part of constants.THEME_CATEGORIES, in its order
THEME_CATEGORIES ==
    <<[name |-> "voyage", keywords |-> <<"train", "voyage", "gare", "valise", "transport">>],
      [name |-> "famille", keywords |-> <<"mère", "père", "parent">>],
      [name |-> "travail", keywords |-> <<"bureau", "rapport", "dossier">>]>>

\* lines 773-801: the lemmas of the nouns that spaCy finds in the texts of
\* this model; under the whole table of constants.py these words match no
\* theme but the three kept here
_extract_significant_words(text) ==
    CASE text = "Je prenais le train avec ma mère" -> <<"train", "mère">>
      [] text = "Un voyageur avec sa valise à la gare" -> <<"voyageur", "valise", "gare">>
      [] text = "Mon père criait sur un dossier" -> <<"père", "dossier">>
      [] OTHER -> <<>>

\* lines 838-858: per theme, the number of distinct words that equal, contain
\* or are contained in one of its keywords; the stems of the words of this
\* model are equal only for equal words
_categorize_words_by_theme(words) ==
    LET Matching(theme) ==
            {words[i] : i \in {j \in DOMAIN words :
                 \E k \in DOMAIN theme.keywords :
                     \/ words[j] = theme.keywords[k]
                     \/ Contains(words[j], theme.keywords[k])
                     \/ Contains(theme.keywords[k], words[j])}}
        RECURSIVE Matches(_)
        Matches(themes) ==
            IF themes = <<>> THEN <<>>
            ELSE (IF Matching(Head(themes)) # {}
                  THEN <<Pair(Head(themes).name, Cardinality(Matching(Head(themes))))>>
                  ELSE <<>>) \o Matches(Tail(themes))
    IN  Matches(THEME_CATEGORIES)

\* a theme counted once for each of its words in a text
RECURSIVE ThemesOfEveryWord(_)
ThemesOfEveryWord(dream_texts) ==
    IF dream_texts = <<>> THEN <<>>
    ELSE LET theme_matches == _categorize_words_by_theme(
                                  _extract_significant_words(Head(dream_texts)))
             RECURSIVE Repeated(_, _)
             Repeated(i, n) ==
                 IF i > Len(theme_matches) THEN <<>>
                 ELSE IF n = 0 THEN Repeated(i + 1, IF i < Len(theme_matches)
                                                    THEN theme_matches[i + 1].v ELSE 0)
                 ELSE <<theme_matches[i].k>> \o Repeated(i, n - 1)
         IN  (IF theme_matches = <<>> THEN <<>>
              ELSE Repeated(1, theme_matches[1].v))
                 \o ThemesOfEveryWord(Tail(dream_texts))

\* lines 861-876: the themes with the number of texts they appear in
RECURSIVE ThemesOf(_)
ThemesOf(dream_texts) ==
    IF dream_texts = <<>> THEN <<>>
    ELSE LET theme_matches == _categorize_words_by_theme(
                                  _extract_significant_words(Head(dream_texts)))
         IN  [i \in DOMAIN theme_matches |-> theme_matches[i].k]
                 \o ThemesOf(Tail(dream_texts))

_calculate_theme_document_frequency(dream_texts) == Counter(ThemesOf(dream_texts))

\* list.sort(key=lambda x: x[1], reverse=True): stable, the greatest count first
RECURSIVE SortedByCount(_)
SortedByCount(pairs) ==
    IF pairs = <<>> THEN <<>>
    ELSE LET i == CHOOSE i \in DOMAIN pairs :
                      /\ \A j \in DOMAIN pairs : pairs[j].v <= pairs[i].v
                      /\ \A j \in 1..(i - 1) : pairs[j].v < pairs[i].v
         IN  <<pairs[i]>> \o SortedByCount(SubSeq(pairs, 1, i - 1)
                                              \o SubSeq(pairs, i + 1, Len(pairs)))

\* str.capitalize() of a lower-case ASCII word
capitalize(word) ==
    LET first == SubSeq(word, 1, 1)
        i == CHOOSE j \in 1..Len(LowerChars) : SubSeq(LowerChars, j, j) = first
    IN  SubSeq(UpperChars, i, i) \o SubSeq(word, 2, Len(word))

\* seq[:n]
FirstN(seq, n) == SubSeq(seq, 1, IF Len(seq) < n THEN Len(seq) ELSE n)

\* lines 879-935, with min_dreams=2 and min_occurrence=2
analyze_recurring_themes(user) ==
    LET texts == NewestFirst({d \in objects_filter(user) : d.transcription # ""})
        dream_texts == [i \in DOMAIN texts |-> texts[i].transcription]
        total_dreams == Len(dream_texts)
        theme_freq == _calculate_theme_document_frequency(dream_texts)
        recurring_themes == SortedByCount(SelectSeq(theme_freq, LAMBDA t : t.v >= 2))
    IN  IF total_dreams < 2
        THEN [top_theme |-> "Pas encore de données", percentage |-> 0,
              total_dreams |-> total_dreams,
              message |-> "Au moins 2 rêves nécessaires"]
        ELSE IF recurring_themes = <<>>
        THEN [top_theme |-> "Aucune récurrence détectée", percentage |-> 0,
              total_dreams |-> total_dreams,
              message |-> "Pas de thématique récurrente trouvée"]
        ELSE [top_theme |-> capitalize(recurring_themes[1].k),
              percentage |-> PercentTenths(recurring_themes[1].v, total_dreams),
              total_dreams |-> total_dreams,
              all_themes |-> FirstN(recurring_themes, 10),
              message |-> ToString(Len(recurring_themes))
                              \o " thématiques récurrentes trouvées"]

\* lines 949-958: the profile of a user without a dream
EmptyProfil ==
    [statut_reveuse |-> "silence onirique",
     pourcentage_reveuse |-> 0,
     label_reveuse |-> "rêves enregistrés",
     emotion_dominante |-> Text("émotion endormie"),
     emotion_dominante_percentage |-> 0,
     thematique_recurrente |-> "Pas encore de données",
     thematique_percentage |-> 0]

\* lines 960-998: the profile computed from `rows`, total being their number
ProfilOf(user, rows, total) ==
    LET nb_reves == Cardinality({d \in rows : d.dream_type = Text("rêve")})
        nb_cauchemars == Cardinality({d \in rows : d.dream_type = Text("cauchemar")})
        ordered == NewestFirst(rows)
        emotion_counts == Counter([i \in DOMAIN ordered |-> ordered[i].dominant_emotion])
        theme_analysis == analyze_recurring_themes(user)
    IN  [statut_reveuse |->
             IF nb_reves >= nb_cauchemars THEN "âme rêveuse"
             ELSE "en proie aux cauchemars",
         pourcentage_reveuse |->
             IF nb_reves >= nb_cauchemars THEN Percent(nb_reves, total)
             ELSE Percent(nb_cauchemars, total),
         label_reveuse |-> IF nb_reves >= nb_cauchemars THEN "rêves" ELSE "cauchemars",
         emotion_dominante |-> most_common(emotion_counts).k,
         emotion_dominante_percentage |-> Percent(most_common(emotion_counts).v, total),
         thematique_recurrente |-> theme_analysis.top_theme,
         thematique_percentage |-> theme_analysis.percentage]

\* lines 941-998 without the test of line 948
get_profil_onirique_statsUnguarded(user) ==
    LET total == Cardinality(objects_filter(user))
    IN  IF total = 0 THEN Raise("division by zero")
        ELSE Return(ProfilOf(user, objects_filter(user), total))

\* lines 941-998
get_profil_onirique_stats(user) ==
    LET total == Cardinality(objects_filter(user))
    IN  IF total = 0 THEN Return(EmptyProfil)
        ELSE Return(ProfilOf(user, objects_filter(user), total))

\* the named period looked at first, the dates only when it names no filter
get_date_filter_querysetPeriodFirst(user, period, start_date, end_date) ==
    LET queryset == objects_filter(user)
        custom == /\ start_date # "" /\ end_date # ""
                  /\ strptime(start_date).do = "return"
                  /\ strptime(end_date).do = "return"
        days == CASE period = "month" -> 30
                  [] period = "3months" -> 90
                  [] period = "6months" -> 180
                  [] period = "1year" -> 365
                  [] OTHER -> -1
    IN  IF days >= 0
        THEN {d \in queryset : HalfDays(d.created_at) >= HalfDays(now) - 2 * days}
        ELSE IF custom
        THEN {d \in queryset :
                 /\ Ordinal(strptime(start_date).value) <= Ordinal(d.created_at)
                 /\ Ordinal(d.created_at) <= Ordinal(strptime(end_date).value)}
        ELSE queryset

\* lines 1004-1050: "" stands for a period or a date that is None or empty
get_date_filter_queryset(user, period, start_date, end_date) ==
    LET queryset == objects_filter(user)
        custom == /\ start_date # "" /\ end_date # ""
                  /\ strptime(start_date).do = "return"
                  /\ strptime(end_date).do = "return"
        days == CASE period = "month" -> 30
                  [] period = "3months" -> 90
                  [] period = "6months" -> 180
                  [] period = "1year" -> 365
                  [] OTHER -> -1
    IN  IF custom
        THEN {d \in queryset :
                 /\ Ordinal(strptime(start_date).value) <= Ordinal(d.created_at)
                 /\ Ordinal(d.created_at) <= Ordinal(strptime(end_date).value)}
        ELSE IF days >= 0
        THEN {d \in queryset : HalfDays(d.created_at) >= HalfDays(now) - 2 * days}
        ELSE queryset

DREAM_TYPES == {"rêve", "cauchemar"}

\* lines 1053-1077
get_dream_type_stats_filtered(user, period, start_date, end_date) ==
    LET rows == get_date_filter_queryset(user, period, start_date, end_date)
        total == Cardinality(rows)
        nb == [t \in DREAM_TYPES |-> Cardinality({d \in rows : d.dream_type = Text(t)})]
    IN  IF total = 0
        THEN Return([percentages |-> [t \in DREAM_TYPES |-> 0],
                     counts |-> [t \in DREAM_TYPES |-> 0],
                     total |-> 0])
        ELSE Return([percentages |-> [t \in DREAM_TYPES |-> PercentTenths(nb[t], total)],
                     counts |-> nb,
                     total |-> total])

\* the days of the rows
DatesOf(rows) == {[y |-> d.created_at.y, m |-> d.created_at.m, d |-> d.created_at.d] :
                     d \in rows}

\* the dates from the latest to the earliest
RECURSIVE SortedDatesNewestFirst(_)
SortedDatesNewestFirst(dates) ==
    IF dates = {} THEN <<>>
    ELSE LET last == CHOOSE x \in dates : \A y \in dates : Ordinal(y) <= Ordinal(x)
         IN  <<last>> \o SortedDatesNewestFirst(dates \ {last})

\* sorted(...) of dates written '%Y-%m-%d'
RECURSIVE SortedDates(_)
SortedDates(dates) ==
    IF dates = {} THEN <<>>
    ELSE LET first == CHOOSE x \in dates : \A y \in dates : Ordinal(x) <= Ordinal(y)
         IN  <<first>> \o SortedDates(dates \ {first})

OnDate(rows, date) == {d \in rows : Ordinal(d.created_at) = Ordinal(date)}

\* lines 1080-1111
get_dream_type_timeline_filtered(user, period, start_date, end_date) ==
    LET rows == get_date_filter_queryset(user, period, start_date, end_date)
        dates == SortedDates(DatesOf(rows))
    IN  [i \in DOMAIN dates |->
            [date |-> strftime(dates[i]),
             counts |-> [t \in DREAM_TYPES |->
                            Cardinality({d \in OnDate(rows, dates[i]) :
                                            d.dream_type = Text(t)})]]]

\* lines 1114-1137
get_emotions_stats_filtered(user, period, start_date, end_date) ==
    LET rows == {d \in get_date_filter_queryset(user, period, start_date, end_date) :
                    d.dominant_emotion # None}
        total == Cardinality(rows)
        found == {d.dominant_emotion.s : d \in rows}
        counts == [e \in found |-> Cardinality({d \in rows : d.dominant_emotion.s = e})]
    IN  IF total = 0
        THEN Return([percentages |-> <<>>, counts |-> <<>>, total |-> 0])
        ELSE Return([percentages |-> [e \in found |-> PercentTenths(counts[e], total)],
                     counts |-> counts,
                     total |-> total])

\* lines 1140-1174: the list of emotions comes out of a set, in no order that
\* the code decides
get_emotions_timeline_filtered(user, period, start_date, end_date) ==
    LET rows == {d \in get_date_filter_queryset(user, period, start_date, end_date) :
                    d.dominant_emotion # None}
        dates == SortedDates(DatesOf(rows))
        all_emotions == {d.dominant_emotion.s : d \in rows}
    IN  [timeline |->
            [i \in DOMAIN dates |->
                [date |-> strftime(dates[i]),
                 counts |-> [e \in all_emotions |->
                                Cardinality({d \in OnDate(rows, dates[i]) :
                                                d.dominant_emotion.s = e})]]],
         emotions |-> all_emotions]

---------------------------------------------------------------------------
(* the statistics over a table that the users fill, change and empty *)

\* the most rows ever created
MaxRows == 4

\* what a finished submission leaves in a row: the type, the dominant
\* emotion, the transcript
DreamKinds ==
    {[dream_type |-> "rêve", dominant_emotion |-> "joie",
      transcription |-> "Je prenais le train avec ma mère"],
     [dream_type |-> "rêve", dominant_emotion |-> "tristesse",
      transcription |-> "Un voyageur avec sa valise à la gare"],
     [dream_type |-> "cauchemar", dominant_emotion |-> "peur",
      transcription |-> "Mon père criait sur un dossier"]}

\* the arguments period, start_date, end_date of the filtered functions: no
\* filter, the last 30 days, a month in the past, the current month given
\* against a period
Windows ==
    {[period |-> "", start_date |-> "", end_date |-> ""],
     [period |-> "month", start_date |-> "", end_date |-> ""],
     [period |-> "", start_date |-> "2025-01-01", end_date |-> "2025-01-31"],
     [period |-> "month", start_date |-> "2025-03-01", end_date |-> "2025-03-31"]}

\* every statistics function applied for one user
AllStats(user) ==
    [profil |-> get_profil_onirique_stats(user),
     themes |-> analyze_recurring_themes(user),
     filtered |->
         [w \in Windows |->
             [types |-> get_dream_type_stats_filtered(
                            user, w.period, w.start_date, w.end_date),
              type_timeline |-> get_dream_type_timeline_filtered(
                            user, w.period, w.start_date, w.end_date),
              emotions |-> get_emotions_stats_filtered(
                            user, w.period, w.start_date, w.end_date),
              emotions_timeline |-> get_emotions_timeline_filtered(
                            user, w.period, w.start_date, w.end_date)]]]

\* the result a user was given stays on their page until their own records
\* change
AfterChangeBy(user) ==
    IF stats # None /\ stats.user = user THEN None ELSE stats

\* the statistics as the pages of `user` ask for them, with the number of
\* rows created until then
Page(user) == [user |-> user, asked_at |-> next_id, result |-> AllStats(user)]

statsRest == <<smcVars, pc, request, events, stage_calls, localVars, provider_log,
               previous, trVars, emVars, fnVars, imgVars, stream>>

\* views.py 144-152: a submission of `user` reaches the creation of its row
StoreDream ==
    /\ next_id <= MaxRows
    /\ \E user \in Users, kind \in DreamKinds :
          /\ dreams' = dreams \cup
                 {NewDream(next_id, user, kind.transcription,
                           Dict(<<Pair(kind.dominant_emotion, 1)>>),
                           Text(kind.dominant_emotion), Text(kind.dream_type))}
          /\ stats' = AfterChangeBy(user)
    /\ next_id' = next_id + 1
    /\ UNCHANGED <<now, statsRest>>

\* Model.save() of a row whose type, emotion and transcript were changed
UpdateDream ==
    /\ \E d \in dreams, kind \in DreamKinds :
          /\ dreams' = Saved(dreams,
                 [d EXCEPT !.dream_type = Text(kind.dream_type),
                           !.emotions_json =
                               DumpsOrNull(Dict(<<Pair(kind.dominant_emotion, 1)>>)),
                           !.dominant_emotion = Text(kind.dominant_emotion),
                           !.transcription = kind.transcription])
          /\ dreams' # dreams
          /\ stats' = AfterChangeBy(d.user)
    /\ UNCHANGED <<now, next_id, statsRest>>

\* views.py 176, 203: dream.delete()
DeleteDream ==
    /\ \E d \in dreams :
          /\ dreams' = Deleted(dreams, d.id)
          /\ stats' = AfterChangeBy(d.user)
    /\ UNCHANGED <<now, next_id, statsRest>>

\* views.py 236-262 and 34-59: the dashboard and the diary of `user` call the
\* statistics functions
Query ==
    /\ \E user \in Users : stats' = Page(user)
    /\ UNCHANGED <<now, dbVars, statsRest>>

InitStats ==
    SmcInit /\ PipeInit /\ pc = "off" /\ TrOff /\ EmOff /\ FnOff /\ ImgOff
        /\ StreamOpen /\ StatsOff

NextStats == StoreDream \/ UpdateDream \/ DeleteDream \/ Query

SpecStats == InitStats /\ [][NextStats]_vars

---------------------------------------------------------------------------
(* the filtered statistics over rows created on different days *)

\* the most rows ever created while the clock runs
MaxDated == 3

\* the instants of timezone.now(), a day being cut in two halves: a morning
\* and the afternoon of the same day, and an afternoon thirty days later
Clock ==
    <<[y |-> 2025, m |-> 2, d |-> 8, h |-> 0],
      [y |-> 2025, m |-> 2, d |-> 8, h |-> 1],
      [y |-> 2025, m |-> 3, d |-> 10, h |-> 1]>>

\* what a finished submission leaves in a row
DatedKinds ==
    {[dream_type |-> "rêve", dominant_emotion |-> "joie"],
     [dream_type |-> "cauchemar", dominant_emotion |-> "peur"]}

Window(period, start_date, end_date) ==
    [period |-> period, start_date |-> start_date, end_date |-> end_date]

\* the GET parameters period, start_date, end_date ("" when absent): each
\* kind of period alone, a pair of dates with and without a period, one date
\* missing, one date that does not parse
DatedWindows ==
    {Window("", "", ""), Window("all", "", ""), Window("month", "", ""),
     Window("semaine", "", ""),
     Window("", "2025-01-01", "2025-02-08"),
     Window("month", "2025-01-01", "2025-02-08"),
     Window("semaine", "2025-01-01", "2025-02-08"),
     Window("month", "2025-01-01", ""),
     Window("month", "", "2025-02-08"),
     Window("month", "2025-02-30", "2025-02-08"),
     Window("month", "2025-01-01", "08/02/2025"),
     Window("all", "2025-02-30", "2025-02-08")}

\* views.py 214-234: the dashboard of `user` asks for a window
Dashboard(user, period, start_date, end_date) ==
    [user |-> user, period |-> period,
     start_date |-> start_date, end_date |-> end_date,
     rows |-> get_date_filter_queryset(user, period, start_date, end_date),
     type_timeline |->
         get_dream_type_timeline_filtered(user, period, start_date, end_date),
     emotions_timeline |->
         get_emotions_timeline_filtered(user, period, start_date, end_date)]

\* views.py 144-152: a submission of `user` reaches the creation of its row,
\* created_at being the instant of the clock
StoreDated ==
    /\ next_id <= MaxDated
    /\ \E user \in Users, kind \in DatedKinds :
          /\ dreams' = dreams \cup
                 {NewDream(next_id, user, "Je volais",
                           Dict(<<Pair(kind.dominant_emotion, 1)>>),
                           Text(kind.dominant_emotion), Text(kind.dream_type))}
          /\ stats' = AfterChangeBy(user)
    /\ next_id' = next_id + 1
    /\ UNCHANGED <<now, statsRest>>

\* time passes: a window asked before is not looked at any more
Tick ==
    /\ \E i \in 1..(Len(Clock) - 1) : now = Clock[i] /\ now' = Clock[i + 1]
    /\ stats' = None
    /\ UNCHANGED <<dbVars, statsRest>>

\* views.py 214-234: dream_followup with its three GET parameters, one
\* request being looked at at a time
QueryWindow ==
    /\ stats = None
    /\ \E user \in Users, w \in DatedWindows :
          stats' = Dashboard(user, w.period, w.start_date, w.end_date)
    /\ UNCHANGED <<now, dbVars, statsRest>>

InitWindows ==
    SmcInit /\ PipeInit /\ pc = "off" /\ TrOff /\ EmOff /\ FnOff /\ ImgOff
        /\ StreamOpen /\ now = Clock[1] /\ stats = None

NextWindows == StoreDated \/ Tick \/ QueryWindow

SpecWindows == InitWindows /\ [][NextWindows]_vars

---------------------------------------------------------------------------
(* json.dumps and json.loads on the texts of the columns emotions_json and
   interpretation_json: models.py 68-102 *)

\* json.dumps with ensure_ascii=True: the characters of the model's texts
\* that are written as escapes
JsonEscapes ==
    <<Pair("\"", "\\\""), Pair("\\", "\\\\"), Pair("É", "\\u00c9"),
      Pair("é", "\\u00e9"), Pair("ê", "\\u00ea")>>

EscapeChar(c) ==
    IF c \in Keys(JsonEscapes) THEN Get(JsonEscapes, c) ELSE c

RECURSIVE Escaped(_)
Escaped(s) ==
    IF s = "" THEN "" ELSE EscapeChar(SubSeq(s, 1, 1)) \o Escaped(SubSeq(s, 2, Len(s)))

json_string(s) == "\"" \o Escaped(s) \o "\""

\* float.__repr__ of a number given in tenths, 0 or more
float_repr(n) == ToString(n \div 10) \o "." \o ToString(n % 10)

RECURSIVE json_dumps_value(_)
json_dumps_value(value) ==
    LET RECURSIVE Joined(_)
        Joined(parts) ==
            IF parts = <<>> THEN ""
            ELSE IF Len(parts) = 1 THEN Head(parts)
            ELSE Head(parts) \o ", " \o Joined(Tail(parts))
    IN  CASE value.t = "number" -> float_repr(value.n)
          [] value.t = "string" -> json_string(value.s)
          [] value.t = "null" -> "null"
          [] value.t = "object" ->
                 "{" \o Joined([i \in DOMAIN value.items |->
                                  json_string(value.items[i].k) \o ": "
                                      \o json_dumps_value(value.items[i].v)]) \o "}"

\* str(value) of a dict: Python's notation, which is not JSON
str_of_dict(value) == Repr(Obj(value.items))

\* json.dumps(value) of a dict
json_dumps(value) == json_dumps_value(Obj(value.items))

\* the character at a place of a text, "" past its end
At(text, i) == IF i >= 1 /\ i <= Len(text) THEN SubSeq(text, i, i) ELSE ""

\* whether the text holds `part` from the place i on
HasAt(text, i, part) ==
    i + Len(part) - 1 <= Len(text) /\ SubSeq(text, i, i + Len(part) - 1) = part

RECURSIVE SkipSpaces(_, _)
SkipSpaces(text, i) == IF At(text, i) = " " THEN SkipSpaces(text, i + 1) ELSE i

\* the scanner found no JSON value
Bad == [ok |-> FALSE]

Found(v, next) == [ok |-> TRUE, v |-> v, next |-> next]

\* the body of a JSON string from the place after its opening quote
RECURSIVE ScanString(_, _)
ScanString(text, i) ==
    LET c == At(text, i)
        escapes == {k \in DOMAIN JsonEscapes : HasAt(text, i, JsonEscapes[k].v)}
    IN  IF c = "" THEN Bad
        ELSE IF c = "\"" THEN Found("", i + 1)
        ELSE IF c = "\\"
        THEN IF escapes = {} THEN Bad
             ELSE LET k == CHOOSE x \in escapes : TRUE
                      rest == ScanString(text, i + Len(JsonEscapes[k].v))
                  IN  IF rest.ok THEN Found(JsonEscapes[k].k \o rest.v, rest.next)
                      ELSE Bad
        ELSE LET rest == ScanString(text, i + 1)
             IN  IF rest.ok THEN Found(c \o rest.v, rest.next) ELSE Bad

\* the place after the digits that start at i
RECURSIVE SkipDigits(_, _)
SkipDigits(text, i) == IF IsDigit(At(text, i)) THEN SkipDigits(text, i + 1) ELSE i

\* a number: digits, then possibly a point and digits; the value in tenths
\* when one digit follows the point, else the literal itself
ScanNumber(text, i) ==
    LET j == SkipDigits(text, i)
        k == SkipDigits(text, j + 1)
    IN  IF At(text, j) # "."
        THEN Found(Num(10 * Number(SubSeq(text, i, j - 1))), j)
        ELSE IF k = j + 1 THEN Bad
        ELSE IF k = j + 2
        THEN Found(Num(10 * Number(SubSeq(text, i, j - 1))
                           + DigitValue(At(text, j + 1))), k)
        ELSE Found([t |-> "number", literal |-> SubSeq(text, i, k - 1)], k)

\* d[k] = v on the items of a dict
Put(items, k, v) ==
    IF k \in Keys(items)
    THEN [i \in DOMAIN items |-> IF items[i].k = k THEN Pair(k, v) ELSE items[i]]
    ELSE Append(items, Pair(k, v))

RECURSIVE ScanValue(_, _), ScanMembers(_, _, _), ScanElements(_, _, _)
\* a JSON value from the place `at` on, spaces skipped
ScanValue(text, at) ==
    LET i == SkipSpaces(text, at)
        c == At(text, i)
    IN  IF c = "{"
        THEN IF At(text, SkipSpaces(text, i + 1)) = "}"
             THEN Found(Obj(<<>>), SkipSpaces(text, i + 1) + 1)
             ELSE ScanMembers(text, i + 1, <<>>)
        ELSE IF c = "["
        THEN IF At(text, SkipSpaces(text, i + 1)) = "]"
             THEN Found([t |-> "list", items |-> <<>>], SkipSpaces(text, i + 1) + 1)
             ELSE ScanElements(text, i + 1, <<>>)
        ELSE IF c = "\""
        THEN LET r == ScanString(text, i + 1)
             IN  IF r.ok THEN Found(Str(r.v), r.next) ELSE Bad
        ELSE IF IsDigit(c) THEN ScanNumber(text, i)
        ELSE IF HasAt(text, i, "null") THEN Found(Null, i + 4)
        ELSE IF HasAt(text, i, "true") THEN Found([t |-> "bool", b |-> TRUE], i + 4)
        ELSE IF HasAt(text, i, "false") THEN Found([t |-> "bool", b |-> FALSE], i + 5)
        ELSE Bad

\* "key": value, then a comma and more, or the closing brace
ScanMembers(text, at, items) ==
    LET i == SkipSpaces(text, at)
        key == IF At(text, i) = "\"" THEN ScanString(text, i + 1) ELSE Bad
        colon == IF key.ok THEN SkipSpaces(text, key.next) ELSE 0
        value == IF key.ok /\ At(text, colon) = ":"
                 THEN ScanValue(text, colon + 1) ELSE Bad
        after == IF value.ok THEN SkipSpaces(text, value.next) ELSE 0
    IN  IF ~value.ok THEN Bad
        ELSE IF At(text, after) = ","
        THEN ScanMembers(text, after + 1, Put(items, key.v, value.v))
        ELSE IF At(text, after) = "}"
        THEN Found(Obj(Put(items, key.v, value.v)), after + 1)
        ELSE Bad

\* value, then a comma and more, or the closing bracket
ScanElements(text, at, items) ==
    LET value == ScanValue(text, at)
        after == IF value.ok THEN SkipSpaces(text, value.next) ELSE 0
    IN  IF ~value.ok THEN Bad
        ELSE IF At(text, after) = ","
        THEN ScanElements(text, after + 1, Append(items, value.v))
        ELSE IF At(text, after) = "]"
        THEN Found([t |-> "list", items |-> Append(items, value.v)], after + 1)
        ELSE Bad

\* json.loads(text): the value of the whole text, a JSON object being a
\* dict; JSONDecodeError for a text that is no JSON value or holds more
json_loads(text) ==
    LET r == ScanValue(text, 1)
    IN  IF r.ok /\ SkipSpaces(text, r.next) = Len(text) + 1
        THEN Return(IF r.v.t = "object" THEN Dict(r.v.items) ELSE r.v)
        ELSE Raise("JSONDecodeError")

\* the getters without their try
property_getUnguarded(column) ==
    IF Truthy(column) THEN json_loads(column.s) ELSE Return(Dict(<<>>))

\* models.py 68-76 and 85-93: the getters emotions and interpretation on the
\* text of their column
property_get(column) ==
    IF Truthy(column)
    THEN LET loaded == json_loads(column.s)
         IN  IF loaded.do = "return" THEN loaded ELSE Return(Dict(<<>>))
    ELSE Return(Dict(<<>>))

\* the setters storing str(value)
property_setStr(value) ==
    IF value.kind = "dict" THEN Text(str_of_dict(value)) ELSE None

\* models.py 78-83 and 95-100: the setters, giving the text of the column
property_set(value) ==
    IF value.kind = "dict" THEN Text(json_dumps(value)) ELSE None

---------------------------------------------------------------------------
(* one Dream in memory and its row: the properties emotions and
   interpretation assigned, saved, reloaded and read *)

\* the two properties with their columns
Properties == {"emotions", "interpretation"}

ColumnOf(property) == property \o "_json"

\* texts found in a column: NULL, the empty text, texts that are not JSON
\* (the one of test_models.py 171, a word, Python's notation, a text cut
\* short), an empty object and an object
StoredTexts ==
    {None, Text(""), Text("{\"joie\": 0.8, \"tristesse\":}"), Text("corrompu"),
     Text("{'joie': 0.8}"), Text("{\"joie\": 0.8"), Text("{}"),
     Text("{\"joie\": 0.8, \"peur\": 0.2}")}

\* values given to a setter: dicts as analyze_emotions and
\* validate_and_fix_interpretation return them and the empty dict of
\* views.py 150, then None and a str
AssignedValues ==
    {Dict(<<>>),
     Dict(<<Pair("joie", Num(7)), Pair("tristesse", Num(2)), Pair("peur", Num(1))>>),
     Dict(<<Pair("Émotionnelle", Str("Ce rêve exprime une \"joie\" profonde")),
            Pair("Symbolique", Obj(<<Pair("détail", Null)>>)),
            Pair("Cognitivo-scientifique", Num(40)),
            Pair("Freudien", Str("Expression de désirs refoulés"))>>),
     None,
     Text("string_instead_of_dict")}

\* no value was given to a property since the row was written by other means
NotGiven == [kind |-> "not given"]

recRest == <<smcVars, pc, request, events, stage_calls, localVars, provider_log,
             next_id, previous, trVars, emVars, img_pc, prompt_text, file_id,
             image_bytes, img_calls, img_log, img_result, stream, statsVars>>

\* a row whose two columns hold one of the texts, and the Dream loaded from it
RecInit ==
    /\ \E text \in StoredTexts :
          dream_instance =
              [id |-> 1, emotions_json |-> text, interpretation_json |-> text,
               given |-> [p \in Properties |-> NotGiven], via |-> "loaded"]
    /\ dreams = {dream_instance}
    /\ next_id = 2
    /\ fn_pc = "idle" /\ fn = "" /\ fn_input = None /\ fn_outcome = None

\* the value read before is not looked at any more
NothingRead == fn_pc' = "idle" /\ fn' = "" /\ fn_input' = None /\ fn_outcome' = None

\* dream.emotions = value, dream.interpretation = value
Assign ==
    /\ \E property \in Properties, value \in AssignedValues :
          dream_instance' =
              [dream_instance EXCEPT ![ColumnOf(property)] = property_set(value),
                                     !.given[property] = value,
                                     !.via = "assigned"]
    /\ NothingRead
    /\ UNCHANGED <<dreams, recRest>>

\* dream.save()
SaveInstance ==
    /\ dream_instance.via = "assigned"
    /\ dream_instance' = [dream_instance EXCEPT !.via = "saved"]
    /\ dreams' = Saved(dreams, dream_instance')
    /\ NothingRead
    /\ UNCHANGED recRest

\* dream.refresh_from_db()
Reload ==
    /\ dream_instance' =
           [Row(dream_instance.id) EXCEPT
               !.via = IF @ = "saved" THEN "reloaded" ELSE @]
    /\ dream_instance' # dream_instance
    /\ NothingRead
    /\ UNCHANGED <<dreams, recRest>>

\* value = dream.emotions, value = dream.interpretation
ReadProperty ==
    /\ \E property \in Properties :
          /\ fn' = property
          /\ fn_input' = [text |-> dream_instance[ColumnOf(property)],
                          given |-> dream_instance.given[property],
                          via |-> dream_instance.via]
          /\ fn_outcome' = property_get(dream_instance[ColumnOf(property)])
    /\ fn_pc' = "done"
    /\ UNCHANGED <<dream_instance, dreams, recRest>>

InitRecord ==
    SmcInit /\ PipeFresh /\ pc = "off" /\ TrOff /\ EmOff /\ StreamOpen /\ StatsOff
        /\ img_pc = "off" /\ prompt_text = "" /\ ImgFresh /\ RecInit

NextRecord == Assign \/ SaveInstance \/ Reload \/ ReadProperty

SpecRecord == InitRecord /\ [][NextRecord]_vars

---------------------------------------------------------------------------
(* generate_image_from_text: utils.py 700-767, models.py 104-111 *)

\* base64.b64encode(image_bytes).decode('utf-8') of the bytes downloaded here
b64encode(bytes) ==
    CASE bytes = "fake_image_binary_data" -> "ZmFrZV9pbWFnZV9iaW5hcnlfZGF0YQ=="
      [] bytes = "png" -> "cG5n"
      [] bytes = "old" -> "b2xk"

\* models.py 104-111: format is 'PNG'; empty bytes leave the field as it is
set_image_from_bytes(instance, bytes) ==
    IF bytes # ""
    THEN [instance EXCEPT !.image_base64 =
              Text("data:image/png;base64," \o b64encode(bytes))]
    ELSE instance

\* lines 749-757: the keywords of a quota error
QuotaKeywords == {"insufficient_quota", "quota_exceeded", "rate_limit"}

\* lines 749-764 with no outer try: what is not a quota error leaves the function
OnImageExceptionEscapes(e) ==
    IF \E keyword \in QuotaKeywords : Contains(Lower(e), keyword)
    THEN [result |-> Return(FALSE), level |-> "warning"]
    ELSE [result |-> Raise(e), level |-> "error"]

\* lines 749-767: the inner handler returns False on a quota error and
\* re-raises anything else into the outer handler, which returns False
OnImageException(e) ==
    IF \E keyword \in QuotaKeywords : Contains(Lower(e), keyword)
    THEN [result |-> Return(FALSE), level |-> "warning"]
    ELSE [result |-> Return(FALSE), level |-> "error"]

\* exception texts of the image provider
ImageErrorTexts ==
    {"insufficient_quota", "quota_exceeded", "Error 429: Rate_Limit reached",
     "Connection reset by peer", "invalid_api_key"}

\* what files.download(...).read() gives: image bytes, or no byte at all
DownloadedBytes == {"fake_image_binary_data", "png", ""}

PromptTexts == {"Un oiseau bleu volant dans un ciel étoilé", "Je tombais sans fin"}

\* everything the function leaves alone
imgRest == <<smcVars, pc, request, events, stage_calls, localVars, provider_log,
             next_id, previous, trVars, emVars, fnVars, stream, statsVars>>

\* the Dream handed over is a saved row, without an image or with an older
\* one; the prompt is its transcription (views.py 157) or another text
ImgInit ==
    /\ img_pc = "called"
    /\ prompt_text \in PromptTexts
    /\ \E user \in Users, t \in PromptTexts,
          image \in {None, Text("data:image/png;base64," \o b64encode("old"))} :
          dream_instance = [NewDream(1, user, t, None, None, Text("rêve"))
                               EXCEPT !.image_base64 = image]
    /\ dreams = {dream_instance}
    /\ next_id = 2
    /\ ImgFresh

\* the function ends in its handlers
ImgFails(call, e) ==
    /\ img_calls' = Append(img_calls, <<call, "raised: " \o e>>)
    /\ img_log' = Append(img_log, OnImageException(e).level)
    /\ img_result' = OnImageException(e).result
    /\ img_pc' = "done"

\* line 709: read_file("instructions_image.txt")
ImgReadInstructions ==
    /\ img_pc = "called"
    /\ \/ /\ img_pc' = "create_agent"
          /\ UNCHANGED <<img_calls, img_log, img_result>>
       \/ ImgFails("read_file", "[Errno 2] No such file or directory")
    /\ UNCHANGED <<prompt_text, dream_instance, file_id, image_bytes, dreams, imgRest>>

\* lines 712-718: mistral_client.beta.agents.create
ImgCreateAgent ==
    /\ img_pc = "create_agent"
    /\ \/ /\ img_calls' = Append(img_calls, <<"agents.create", "agent_123">>)
          /\ img_pc' = "start_conversation"
          /\ UNCHANGED <<img_log, img_result>>
       \/ \E e \in ImageErrorTexts : ImgFails("agents.create", e)
    /\ UNCHANGED <<prompt_text, dream_instance, file_id, image_bytes, dreams, imgRest>>

\* lines 720-737: conversations.start, the file id looked for in its outputs,
\* False when there is none
ImgStartConversation ==
    /\ img_pc = "start_conversation"
    /\ \/ /\ img_calls' = Append(img_calls, <<"conversations.start", prompt_text>>)
          /\ \/ /\ file_id' = Text("file_456")
                /\ img_pc' = "download"
                /\ UNCHANGED <<img_log, img_result>>
             \/ /\ file_id' = None
                /\ img_log' = Append(img_log, "warning")
                /\ img_result' = Return(FALSE)
                /\ img_pc' = "done"
       \/ /\ \E e \in ImageErrorTexts : ImgFails("conversations.start", e)
          /\ UNCHANGED file_id
    /\ UNCHANGED <<prompt_text, dream_instance, image_bytes, dreams, imgRest>>

\* lines 739-742: files.download(file_id).read() and set_image_from_bytes
ImgDownload ==
    /\ img_pc = "download"
    /\ \/ \E bytes \in DownloadedBytes :
             /\ img_calls' = Append(img_calls, <<"files.download", file_id.s>>)
             /\ image_bytes' = Text(bytes)
             /\ dream_instance' = set_image_from_bytes(dream_instance, bytes)
             /\ img_pc' = "save"
             /\ UNCHANGED <<img_log, img_result>>
       \/ /\ \E e \in ImageErrorTexts : ImgFails("files.download", e)
          /\ UNCHANGED <<image_bytes, dream_instance>>
    /\ UNCHANGED <<prompt_text, file_id, dreams, imgRest>>

\* lines 743-747: dream_instance.save() and True, or the exception of save()
ImgSave ==
    /\ img_pc = "save"
    /\ \/ /\ dreams' = Saved(dreams, dream_instance)
          /\ img_calls' = Append(img_calls, <<"save", "saved">>)
          /\ img_log' = Append(img_log, "info")
          /\ img_result' = Return(TRUE)
          /\ img_pc' = "done"
       \/ /\ ImgFails("save", "database is locked")
          /\ UNCHANGED dreams
    /\ UNCHANGED <<prompt_text, dream_instance, file_id, image_bytes, imgRest>>

InitImage ==
    SmcInit /\ PipeFresh /\ pc = "off" /\ TrOff /\ EmOff /\ FnOff /\ StreamOpen
        /\ StatsOff /\ ImgInit

NextImage ==
    ImgReadInstructions \/ ImgCreateAgent \/ ImgStartConversation \/ ImgDownload
        \/ ImgSave

SpecImage == InitImage /\ [][NextImage]_vars

---------------------------------------------------------------------------
(* Properties of safe_mistral_call, checked under SpecCall *)

\* The exception texts of ErrorTexts that hold one of the markers
\* insufficient_quota, quota_exceeded, rate_limit, model_not_found,
\* service_unavailable, timeout, in some letter case.
ExpectedRecoverable ==
    {"insufficient_quota", "quota_exceeded", "rate_limit", "model_not_found",
     "service_unavailable", "timeout",
     "QUOTA_EXCEEDED", "Error 429: Rate_Limit reached", "Request Timeout"}

FailedRecoverably(o) == ~o.ok /\ o.error \in ExpectedRecoverable

FailedCritically(o) == ~o.ok /\ o.error \notin ExpectedRecoverable

AllFailedRecoverably == \A i \in DOMAIN outcomes : FailedRecoverably(outcomes[i])

\* [primary] followed by the primary's fallback list
ExpectedOrder == <<model>> \o FallbackOf(model)

IsPrefix(a, b) == Len(a) <= Len(b) /\ SubSeq(b, 1, Len(a)) = a

\* C1: the models are called one at a time in the order [primary] followed by
\* the primary's fallback list; the first call that succeeds ends the loop
\* and its response is the value returned, no later model being called; when
\* A fails recoverably and B succeeds the calls are exactly [A, B] and B's
\* response is returned.
C1_FirstSuccessIsReturned ==
    smc_pc # "idle" =>
        /\ IsPrefix(calls, ExpectedOrder)
        /\ Len(outcomes) = Len(calls)
        /\ \A i \in DOMAIN outcomes :
               outcomes[i].ok =>
                   /\ i = Len(outcomes)
                   /\ smc_pc = "returned"
                   /\ smc_result = outcomes[i].response
                   /\ smc_result.model = calls[i]
        /\ (Len(outcomes) >= 2 /\ FailedRecoverably(outcomes[1]) /\ outcomes[2].ok) =>
               /\ calls = <<ExpectedOrder[1], ExpectedOrder[2]>>
               /\ smc_result = outcomes[2].response

C1_Witness ==
    /\ smc_pc = "returned"
    /\ model = "mistral-large-latest"
    /\ calls = <<"mistral-large-latest", "mistral-medium">>
    /\ FailedRecoverably(outcomes[1])
    /\ outcomes[2].ok
    /\ smc_result = outcomes[2].response

\* C2: a failure whose text holds no marker is the last call of the run: the
\* exception is raised with that text, nothing is returned and no further
\* model is called, at the first position (exactly one call) and at any
\* later one.
C2_CriticalErrorIsRaisedAtOnce ==
    \A i \in DOMAIN outcomes :
        FailedCritically(outcomes[i]) =>
            /\ i = Len(outcomes)
            /\ Len(calls) = i
            /\ smc_pc = "raised"
            /\ smc_raised = outcomes[i].error
            /\ smc_result = None

C2_Witness ==
    /\ smc_pc = "raised"
    /\ Len(calls) = 3
    /\ FailedRecoverably(outcomes[1])
    /\ FailedRecoverably(outcomes[2])
    /\ FailedCritically(outcomes[3])

\* C3: while every call so far failed recoverably the loop goes on until
\* len(fallback list) + 1 calls are made, and then None is returned and
\* nothing is raised: 4 calls for mistral-large-latest, 1 for open-mistral-7b.
C3_ExhaustedChainReturnsNone ==
    (smc_pc # "idle" /\ AllFailedRecoverably) =>
        /\ Len(calls) <= Len(FallbackOf(model)) + 1
        /\ Len(calls) < Len(FallbackOf(model)) + 1 => smc_pc = "loop"
        /\ Len(calls) = Len(FallbackOf(model)) + 1 =>
               smc_pc = "returned" /\ smc_result = None /\ smc_raised = ""
        /\ (smc_pc = "returned" /\ model = "mistral-large-latest") => Len(calls) = 4
        /\ (smc_pc = "returned" /\ model = "open-mistral-7b") => Len(calls) = 1

C3_Witness ==
    /\ smc_pc = "returned"
    /\ model = "mistral-large-latest"
    /\ Len(calls) = 4
    /\ AllFailedRecoverably
    /\ smc_result = None

\* C4: a failed call is treated as recoverable (the loop goes on, or returns
\* None at the end of the chain) exactly when its text holds a marker in
\* some letter case; every other failure is raised.
C4_RecoverableIffMarker ==
    \A i \in DOMAIN outcomes :
        ~outcomes[i].ok =>
            (outcomes[i].error \in ExpectedRecoverable
                <=> ~(i = Len(outcomes) /\ smc_pc = "raised"))

C4_Witness ==
    /\ Len(outcomes) = 3
    /\ outcomes[1] = Fail("QUOTA_EXCEEDED")
    /\ outcomes[2] = Fail("Request Timeout")
    /\ outcomes[3] = Fail("permission_denied")
    /\ smc_pc = "raised"

---------------------------------------------------------------------------
(* Properties of the submission pipeline, checked under Spec *)

Steps(evs) == [i \in DOMAIN evs |-> evs[i].step]

Ended == pc = "closed"

EndedWith(step) == Ended /\ events # <<>> /\ events[Len(events)].step = step

Called(stage) == \E i \in DOMAIN stage_calls : stage_calls[i] = stage

\* the four lenses, each a string
HasInterpretation(d) ==
    LET i == LoadsOrEmpty(d.interpretation_json).items
    IN  /\ Keys(i) = {"Émotionnelle", "Symbolique", "Cognitivo-scientifique", "Freudien"}
        /\ Len(i) = 4

\* interpret_dream gave None: the call layer returned None, or content that
\* is not JSON
InterpretationWasNone ==
    /\ Called("interpret_dream")
    /\ pc # "interpretation_call"
    /\ smc_raised = ""
    /\ (smc_result = None \/ smc_result.content = NotJson)

C6_AnalyzedHasInterpretation ==
    \A d \in dreams : d.is_analyzed => HasInterpretation(d)

\* C7: a submission that ended with the complete event invoked transcription,
\* emotion analysis, classification, image generation and interpretation
\* once each in this order and emitted transcription, emotions, image,
\* interpretation, complete in this order; before that the stages and the
\* events are prefixes of these.
C7_StagesAndEventsInOrder ==
    LET stages == <<"transcribe_audio", "analyze_emotions", "classify_dream",
                    "generate_image_from_text", "interpret_dream">>
        steps == <<"transcription", "emotions", "image", "interpretation", "complete">>
    IN  /\ IsPrefix(stage_calls, stages)
        /\ EndedWith("complete") =>
               stage_calls = stages /\ Steps(events) = steps
        /\ (~Ended \/ EndedWith("complete")) => IsPrefix(Steps(events), steps)

C7_Witness == EndedWith("complete") /\ Len(events) = 5 /\ Len(stage_calls) = 5

ImageFailed ==
    \E i \in DOMAIN provider_log :
        provider_log[i].key = "generate_image_from_text" /\ ~provider_log[i].ok

TranscriptionGaveNothing ==
    /\ provider_log # <<>>
    /\ provider_log[1].key = "transcribe_audio"
    /\ provider_log[1].ok
    /\ (provider_log[1].what = None \/ provider_log[1].what = Text(""))

\* analyze_emotions was invoked and came back without scores
EmotionAnalysisFailed ==
    /\ Called("analyze_emotions")
    /\ pc # "emotions_call"
    /\ emotions = None

\* C9: without audio, or with a transcription that gave nothing, the events
\* are exactly one error and no later stage is invoked; when emotion analysis
\* fails the events are exactly transcription, error; in the three cases no
\* Dream row is ever created.
C9_EarlyFailures ==
    /\ (request # NoRequest /\ ~request.has_audio /\ pc # "start") =>
           /\ Steps(events) = <<"error">>
           /\ stage_calls = <<>>
           /\ Ended /\ dreams = {} /\ next_id = 1
    /\ TranscriptionGaveNothing =>
           /\ Steps(events) = <<"error">>
           /\ stage_calls = <<"transcribe_audio">>
           /\ Ended /\ dreams = {} /\ next_id = 1
    /\ EmotionAnalysisFailed =>
           /\ Steps(events) = <<"transcription", "error">>
           /\ stage_calls = <<"transcribe_audio", "analyze_emotions">>
           /\ Ended /\ dreams = {} /\ next_id = 1

C9_Witness ==
    /\ EmotionAnalysisFailed
    /\ Steps(events) = <<"transcription", "error">>
    /\ smc_result = None
    /\ Len(calls) = 2

\* the interpretation read back from a row has exactly the four lens keys,
\* each mapped to a string
FourLensesOfText(d) ==
    LET i == LoadsOrEmpty(d.interpretation_json).items
    IN  /\ HasInterpretation(d)
        /\ \A k \in DOMAIN i : i[k].v.t = "string"

\* the row holds what the stages produced for the requesting user; the
\* dominant emotion is a key of the score mapping, not its label
HoldsTheAnalysis(d) ==
    /\ d.user = request.user
    /\ d.transcription = transcription.s
    /\ LoadsOrEmpty(d.emotions_json) = emotions
    /\ d.dominant_emotion = raw_dominant_key
    /\ raw_dominant_key.s \in Keys(emotions.items)
    /\ d.dream_type = classify_dream(emotions)
    /\ d.is_analyzed

\* C11: when the submission has reached the complete event exactly one Dream
\* row was created by it, owned by the requesting user, holding the
\* transcription, the emotion scores, the raw dominant-emotion key, the dream
\* type of the classification, is_analyzed = TRUE and an interpretation with
\* exactly the four lens keys mapped to strings.
C11_CompleteRecord ==
    EndedWith("complete") =>
        /\ Cardinality(dreams) = 1 /\ next_id = 2 /\ Exists(dream)
        /\ HoldsTheAnalysis(Row(dream))
        /\ FourLensesOfText(Row(dream))

\* C11 without the lenses' type: the rest of the record
C11_RecordButLensType ==
    EndedWith("complete") =>
        /\ Cardinality(dreams) = 1 /\ next_id = 2 /\ Exists(dream)
        /\ HoldsTheAnalysis(Row(dream))
        /\ HasInterpretation(Row(dream))

---------------------------------------------------------------------------
(* Properties of two submissions, checked under SpecPair *)

\* the strings an event carries
StringsOf(ev) ==
    CASE ev.step = "error" -> {ev.message}
      [] ev.step = "transcription" -> {ev.data.transcription}
      [] ev.step = "emotions" -> {ev.data.dominant_emotion, ev.data.dream_type}
      [] ev.step = "image" ->
             IF ev.data.image_path = None THEN {} ELSE {ev.data.image_path.s}
      [] ev.step = "interpretation" ->
             LET items == ev.data.interpretation.items
             IN  {items[i].v.s : i \in {j \in DOMAIN items : items[j].v.t = "string"}}
      [] OTHER -> {}

ErrorTextsOf(log) == {log[i].error : i \in DOMAIN log} \ {""}

\* every error event is the centralized one, and no event carries a
\* provider's error text
EventsHideErrors(evs, log) ==
    \A i \in DOMAIN evs :
        /\ evs[i].step = "error" =>
               evs[i] = [step |-> "error", message |-> DREAM_ERROR_MESSAGE]
        /\ StringsOf(evs[i]) \cap ErrorTextsOf(log) = {}

BothEnded == previous # NoPrevious /\ Ended

\* the calls both submissions made failed with texts of the same class
SameClasses ==
    \A i \in DOMAIN previous.provider_log, j \in DOMAIN provider_log :
        (previous.provider_log[i].key = provider_log[j].key
             /\ ~provider_log[j].ok /\ provider_log[j].key # "transcribe_audio") =>
            (previous.provider_log[i].error \in ExpectedRecoverable
                 <=> provider_log[j].error \in ExpectedRecoverable)

TextsDiffer ==
    \E i \in DOMAIN previous.provider_log, j \in DOMAIN provider_log :
        /\ previous.provider_log[i].key = provider_log[j].key
        /\ previous.provider_log[i].error # provider_log[j].error

\* C10 as amended: every error event carries exactly the centralized message,
\* no provider error text appears in any event, and two submissions whose
\* providers differ only in error texts of the same recoverability class
\* emit identical events.
C10_ErrorTextNeverShown ==
    /\ EventsHideErrors(events, provider_log)
    /\ EventsHideErrors(previous.events, previous.provider_log)
    /\ (BothEnded /\ SameClasses) => events = previous.events

C10_Witness ==
    /\ BothEnded
    /\ SameClasses
    /\ TextsDiffer
    /\ EndedWith("error")
    /\ events = previous.events
    /\ Len(events) = 4

\* C10 as stated: two submissions that differ only in the provider's error
\* text emit identical events.
C10_AnyErrorTextSameEvents ==
    /\ EventsHideErrors(events, provider_log)
    /\ EventsHideErrors(previous.events, previous.provider_log)
    /\ BothEnded => events = previous.events

---------------------------------------------------------------------------
(* Properties of transcribe_audio, checked under SpecTranscribe *)

ExpectedRetryable ==
    {"Connection error.", "Request Timeout", "Error code: 429 - Rate limit reached"}

\* 1.5 and 2.25 seconds
ExpectedSleeps == <<150, 225>>

TrDone == tr_pc = "done"

PrimaryFailedRetryably(i) ==
    ~primary_calls[i].ok /\ primary_calls[i].error \in ExpectedRetryable

\* the attempt loop is over
PrimaryOver == tr_pc \in {"fallback", "finally", "done"}

\* C12: at most 3 primary attempts are made; an attempt is followed by another
\* only when it failed with a retryable error and attempts remained, and
\* then a sleep came first, the sleeps being 1.5^attempt and strictly
\* increasing; a failure that is not retryable, or the third, ends the loop;
\* two retryable failures and a success on attempt 3 return that attempt's
\* text after exactly two sleeps.
C12_BoundedRetriesWithBackoff ==
    /\ Len(primary_calls) <= 3
    /\ \A i \in DOMAIN primary_calls :
           i < Len(primary_calls) => PrimaryFailedRetryably(i)
    /\ (PrimaryOver /\ primary_calls # <<>> /\ ~primary_calls[Len(primary_calls)].ok) =>
           (Len(primary_calls) = 3 \/ ~PrimaryFailedRetryably(Len(primary_calls)))
    /\ Len(sleeps) = (IF tr_pc = "attempt" THEN Len(primary_calls)
                      ELSE IF primary_calls = <<>> THEN 0
                      ELSE Len(primary_calls) - 1)
    /\ \A i \in DOMAIN sleeps : sleeps[i] = ExpectedSleeps[i]
    /\ \A i \in DOMAIN sleeps : i > 1 => sleeps[i] > sleeps[i - 1]
    /\ (TrDone /\ Len(primary_calls) = 3 /\ primary_calls[3].ok) =>
           /\ tr_result = Return(Text(primary_calls[3].response))
           /\ Len(sleeps) = 2

C12_Witness ==
    /\ TrDone
    /\ Len(primary_calls) = 3
    /\ primary_calls[3].ok
    /\ primary_calls[3].response # ""
    /\ sleeps = <<150, 225>>
    /\ tr_result = Return(Text(primary_calls[3].response))

AllPrimaryFailedRetryably ==
    /\ Len(primary_calls) = 3
    /\ \A i \in 1..3 : PrimaryFailedRetryably(i)

\* C13: when the three primary attempts failed with a retryable error the
\* secondary transport is called, once; its text is the result when it
\* produced one, and the result is None when it failed or produced no text.
C13_SecondaryAfterPrimary ==
    (AllPrimaryFailedRetryably /\ tr_pc \in {"finally", "done"}) =>
        /\ Len(secondary_calls) = 1
        /\ LET o == secondary_calls[1]
               expected == IF o.ok /\ o.response # ""
                           THEN Return(Text(o.response)) ELSE Return(None)
           IN  /\ tr_leaving = expected
               /\ TrDone => tr_result = expected

C13_Witness ==
    /\ AllPrimaryFailedRetryably
    /\ TrDone
    /\ secondary_calls = <<Ok("J'ai rêvé d'un oiseau bleu")>>
    /\ tr_result = Return(Text("J'ai rêvé d'un oiseau bleu"))

\* C14: once transcribe_audio has returned or exited, the temporary file it
\* created does not exist.
C14_TempFileRemoved == TrDone => temp_file = "absent"

\* the temporary file is removed in the branches that got past the write
C14_RemovedOnceNamed == (TrDone /\ temp_file_path) => temp_file = "absent"

\* C15: transcribe_audio never lets an exception escape: it ends by
\* returning, a text or None.
C15_NoExceptionEscapes == TrDone => tr_result.do = "return"

\* C16: without the credential transcribe_audio returns None, and neither
\* the Groq client nor the httpx transport is called.
C16_NoCredentialNoCall ==
    ~GROQ_API_KEY =>
        /\ primary_calls = <<>> /\ secondary_calls = <<>>
        /\ temp_file = "absent" /\ sleeps = <<>>
        /\ tr_pc \in {"idle", "done"}
        /\ TrDone => tr_result = Return(None)

C16_Witness ==
    ~GROQ_API_KEY /\ TrDone /\ tr_result = Return(None) /\ primary_calls = <<>>

LastPrimarySucceeded ==
    primary_calls # <<>> /\ primary_calls[Len(primary_calls)].ok

\* C17: a primary attempt that succeeds ends the loop and its transcript is
\* the result, also when the transcript is empty or under 10 characters:
\* no attempt follows it and the secondary transport is not called.
C17_ShortTranscriptReturned ==
    LastPrimarySucceeded =>
        /\ tr_pc \in {"finally", "done"}
        /\ secondary_calls = <<>>
        /\ tr_leaving = Return(Text(primary_calls[Len(primary_calls)].response))
        /\ TrDone => tr_result = tr_leaving

C17_Witness ==
    /\ TrDone
    /\ primary_calls = <<Ok("")>>
    /\ tr_result = Return(Text(""))
    /\ secondary_calls = <<>>

---------------------------------------------------------------------------
(* Properties of analyze_emotions and softmax, checked under SpecEmotions *)

EmDone == em_pc = "done"

\* the entries of the content when it is a mapping or a list of pairs
EntriesOf(response) ==
    IF response = None THEN <<>>
    ELSE IF response.content \in {JsonList, JsonNumber, JsonNull, NotJson} THEN <<>>
    ELSE response.content.items

\* numbers, and text that reads as a number
IsNumeric(v) == v \in {Num(2), Num(8), Num(7100), Num(-7500), Str("0.5")}

\* the raw score of a numeric value, in tenths
RawScore(v) == IF v = Str("0.5") THEN 5 ELSE v.n

\* the positions of the numeric entries
NumericAt(items) == {i \in DOMAIN items : IsNumeric(items[i].v)}

\* the call layer returned None, or the content is no JSON, or neither a
\* mapping nor a list of pairs, or no value is coercible to a number
IsFailureCase(response) == NumericAt(EntriesOf(response)) = {}

\* the keys of the numeric entries, in order
RECURSIVE NumericKeys(_)
NumericKeys(items) ==
    IF items = <<>> THEN <<>>
    ELSE (IF IsNumeric(Head(items).v) THEN <<Head(items).k>> ELSE <<>>)
             \o NumericKeys(Tail(items))

RECURSIVE NumericScores(_)
NumericScores(items) ==
    IF items = <<>> THEN <<>>
    ELSE (IF IsNumeric(Head(items).v) THEN <<RawScore(Head(items).v)>> ELSE <<>>)
             \o NumericScores(Tail(items))

\* analyze_emotions returned a score mapping
GaveScores == EmDone /\ em_outcome.do = "return" /\ em_outcome.value.scores # None

ScoresGiven == em_outcome.value.scores.items

\* C18: analyze_emotions returns (None, None), and raises nothing, when the
\* call layer returned None, when the content is not JSON, when it is neither
\* a mapping nor a list of pairs, or when no value is coercible to a number;
\* otherwise it returns a score mapping whose keys are exactly those of the
\* numeric entries.
C18_NoneOrScoresOfNumericEntries ==
    EmDone =>
        IF IsFailureCase(em_response)
        THEN em_outcome = Return(NoEmotions)
        ELSE /\ GaveScores
             /\ [i \in DOMAIN ScoresGiven |-> ScoresGiven[i].k]
                    = NumericKeys(EntriesOf(em_response))

\* the four failures give (None, None), and a score mapping that is returned
\* has the keys of the numeric entries
C18_WhenItReturns ==
    EmDone =>
        /\ IsFailureCase(em_response) => em_outcome = Return(NoEmotions)
        /\ GaveScores =>
               [i \in DOMAIN ScoresGiven |-> ScoresGiven[i].k]
                   = NumericKeys(EntriesOf(em_response))

RECURSIVE SumOfScores(_)
SumOfScores(scores) ==
    IF scores = <<>> THEN 0 ELSE Head(scores).v + SumOfScores(Tail(scores))

\* values in (0, 1], summing to 1 within 1e-5, in the order of the raw scores
IsDistributionOf(scores, raw) ==
    /\ Len(scores) = Len(raw)
    /\ \A i \in DOMAIN scores : scores[i].v > 0 /\ scores[i].v <= 1000000
    /\ SumOfScores(scores) >= 1000000 - 10
    /\ SumOfScores(scores) <= 1000000 + 10
    /\ \A i, j \in DOMAIN scores : raw[i] < raw[j] => scores[i].v < scores[j].v

\* C20: for every mapping with at least one numeric entry softmax returns a
\* mapping over the same keys whose values are each in (0, 1], sum to 1
\* within 1e-5 and are strictly ordered as the inputs are.
C20_SoftmaxIsDistribution ==
    (EmDone /\ ~IsFailureCase(em_response)) =>
        /\ GaveScores
        /\ [i \in DOMAIN ScoresGiven |-> ScoresGiven[i].k]
               = NumericKeys(EntriesOf(em_response))
        /\ IsDistributionOf(ScoresGiven, NumericScores(EntriesOf(em_response)))

\* the same for scores between 0 and 1
C20_DistributionOfUnitScores ==
    (EmDone /\ ~IsFailureCase(em_response)
        /\ \A i \in DOMAIN NumericScores(EntriesOf(em_response)) :
               NumericScores(EntriesOf(em_response))[i] \in 0..10) =>
        /\ GaveScores
        /\ IsDistributionOf(ScoresGiven, NumericScores(EntriesOf(em_response)))


---------------------------------------------------------------------------
(* claims on SpecFunctions *)

FnDone(name) == fn_pc = "done" /\ fn = name

Range(seq) == {seq[i] : i \in DOMAIN seq}

\* twelve times the mean of the scores a mapping holds for the names, 0 when
\* it holds none of them (exact up to four names present)
TwelveMeans(names, items) ==
    LET held == {i \in DOMAIN items : items[i].k \in names}
        RECURSIVE Total(_)
        Total(S) == IF S = {} THEN 0
                    ELSE LET i == CHOOSE j \in S : TRUE
                         IN  items[i].v + Total(S \ {i})
    IN  IF held = {} THEN 0 ELSE (12 * Total(held)) \div Cardinality(held)

NegativeMean(items) == TwelveMeans(Range(reference_emotions.negatif), items)

PositiveMean(items) == TwelveMeans(Range(reference_emotions.positif), items)

\* C21: classify_dream returns None for None; for a mapping it returns
\* 'cauchemar' exactly when the mean of the negative reference emotions
\* present is greater than the mean of the positive ones present, a mean
\* being 0 when none is present, and 'rêve' otherwise: on a tie, for the
\* empty mapping, for a mapping of unknown emotions only.
C21_ClassifiedByMeans ==
    FnDone("classify_dream") =>
        IF fn_input = None THEN fn_outcome = Return(None)
        ELSE LET items == fn_input.items
             IN  /\ fn_outcome \in {Return(Text("cauchemar")), Return(Text("rêve"))}
                 /\ fn_outcome = Return(Text("cauchemar"))
                        <=> NegativeMean(items) > PositiveMean(items)
                 /\ NegativeMean(items) = PositiveMean(items)
                        => fn_outcome = Return(Text("rêve"))
                 /\ Keys(items) \subseteq {"surprise"}
                        => fn_outcome = Return(Text("rêve"))

\* a nightmare by the means although the positive total is the larger: two
\* positive scores against one negative score
C21_Witness ==
    /\ FnDone("classify_dream")
    /\ fn_input # None
    /\ Keys(fn_input.items) = {"joie", "sérénité", "peur", "surprise"}
    /\ Get(fn_input.items, "joie") + Get(fn_input.items, "sérénité")
           > Get(fn_input.items, "peur")
    /\ fn_outcome = Return(Text("cauchemar"))


\* the result is a dict of exactly the four lenses, in their order
HasFourLenses(outcome) ==
    /\ outcome.do = "return"
    /\ outcome.value # None
    /\ [i \in DOMAIN outcome.value.items |-> outcome.value.items[i].k] = expected_keys

LensesAreText(outcome) ==
    \A i \in DOMAIN outcome.value.items : outcome.value.items[i].v.t = "string"

\* C22: validate_and_fix_interpretation raises for no input, and for every
\* input other than None its result holds exactly the four lens keys, each
\* mapped to a string.
C22_NeverRaisesFourStrings ==
    FnDone("validate_and_fix_interpretation") =>
        /\ fn_outcome.do = "return"
        /\ fn_input # JsonNull =>
               HasFourLenses(fn_outcome) /\ LensesAreText(fn_outcome)

\* what does hold: a dict comes back as a dict of the four lenses
C22_FourLensesOfADict ==
    (FnDone("validate_and_fix_interpretation") /\ fn_input \in LensObjects) =>
        HasFourLenses(fn_outcome)

\* str() of the lens values that are neither text nor a dict with a
\* 'contenu' or 'content' field
StringConversion(value) ==
    CASE value = Num(3) -> "3"
      [] value = Null -> "None"
      [] value = Obj(<<Pair("autre", Str("c"))>>) -> "{'autre': 'c'}"

\* the repair rule for the lens `key` of the dict `items`, `fixed` being what
\* the result holds for it
RepairedAsStated(items, key, fixed) ==
    IF key \notin Keys(items) THEN fixed = Str("Interprétation non disponible")
    ELSE LET value == Get(items, key)
         IN  IF value.t = "string" THEN fixed = value
             ELSE IF value.t = "object"
                     /\ Keys(value.items) \cap {"contenu", "content"} # {}
             THEN \E field \in Keys(value.items) \cap {"contenu", "content"} :
                      fixed = Get(value.items, field)
             ELSE fixed = Str(StringConversion(value))

\* C23: validate_and_fix_interpretation keeps a lens that is a string,
\* replaces a lens that is a mapping with a 'contenu' or 'content' field by
\* that field's value, converts any other value by str(), fills a missing
\* lens with 'Interprétation non disponible', and returns None for None.
C23_RepairRule ==
    FnDone("validate_and_fix_interpretation") =>
        /\ fn_input = JsonNull => fn_outcome = Return(None)
        /\ fn_input \in LensObjects =>
               /\ HasFourLenses(fn_outcome)
               /\ \A i \in DOMAIN expected_keys :
                      RepairedAsStated(fn_input.items, expected_keys[i],
                                       fn_outcome.value.items[i].v)

\* one dict showing the four rules: a string kept, a 'contenu' taken out, a
\* number converted, a lens missing
C23_Witness ==
    /\ FnDone("validate_and_fix_interpretation")
    /\ fn_input = JsonObject(<<Pair("Émotionnelle", Str("un rêve de liberté")),
                               Pair("Symbolique", Obj(<<Pair("contenu", Str("texte a"))>>)),
                               Pair("Cognitivo-scientifique", Num(3))>>)
    /\ fn_outcome = Return(Dict(<<Pair("Émotionnelle", Str("un rêve de liberté")),
                                  Pair("Symbolique", Str("texte a")),
                                  Pair("Cognitivo-scientifique", Str("3")),
                                  Pair("Freudien", Str("Interprétation non disponible"))>>))

\* C24: interpret_dream returns None when the call layer returned None or
\* the content is not valid JSON; for every other content it returns the
\* repaired mapping of four lenses, and it does not raise.
C24_NoneOrRepairedMapping ==
    FnDone("interpret_dream") =>
        IF fn_input = None \/ fn_input.content = NotJson
        THEN fn_outcome = Return(None)
        ELSE HasFourLenses(fn_outcome)

\* what does hold: None for None and for text that is no JSON, the repaired
\* mapping for a JSON object
C24_ForObjects ==
    FnDone("interpret_dream") =>
        /\ (fn_input = None \/ fn_input.content = NotJson) => fn_outcome = Return(None)
        /\ (fn_input # None /\ fn_input.content \in LensObjects) =>
               fn_outcome = validate_and_fix_interpretation(fn_input.content)
                   /\ HasFourLenses(fn_outcome)


---------------------------------------------------------------------------
(* claims on SpecImage *)

ImgDone == img_pc = "done"

ImgRaisedIn == {img_calls[i][1] : i \in {j \in DOMAIN img_calls :
                    Len(img_calls[j][2]) >= 7 /\ SubSeq(img_calls[j][2], 1, 7) = "raised:"}}

\* an exception was raised on the way, or the conversation held no file id
ImgFailed ==
    \/ ImgRaisedIn # {}
    \/ (\E i \in DOMAIN img_calls : img_calls[i][1] = "conversations.start")
           /\ file_id = None

\* C25: generate_image_from_text never raises; a quota or rate-limit
\* error, any other exception and a conversation without a file id all give
\* False, and the image persisted on the record is then what it was.
C25_FalseAndImageUntouched ==
    /\ [](ImgDone => img_result \in {Return(TRUE), Return(FALSE)})
    /\ []((ImgDone /\ ImgFailed) => img_result = Return(FALSE))
    /\ [][img_result' = Return(FALSE) => dreams' = dreams]_vars
    /\ [][dreams' # dreams => img_result' = Return(TRUE)]_vars

\* the download failed on an error that is no quota error, after an image
\* had been persisted earlier: False, and the row still holds that image
C25_Witness ==
    /\ ImgDone
    /\ img_calls[Len(img_calls)] = <<"files.download", "raised: Connection reset by peer">>
    /\ img_log = <<"error">>
    /\ img_result = Return(FALSE)
    /\ Row(1).image_base64 = Text("data:image/png;base64,b2xk")

\* C26: when generate_image_from_text returns True, the binary of the file
\* id found has been downloaded and the record has been persisted holding
\* an image that is not None together with the prompt text used.
C26_TrueMeansImageAndPrompt ==
    (ImgDone /\ img_result = Return(TRUE)) =>
        /\ \E i \in DOMAIN img_calls : img_calls[i] = <<"files.download", file_id.s>>
        /\ Row(1) = dream_instance
        /\ Row(1).image_base64 # None
        /\ \/ Row(1).transcription = prompt_text
           \/ "image_prompt" \in DOMAIN Row(1) /\ Row(1).image_prompt = prompt_text

\* what does hold: the download was made and the instance saved, with the
\* data URL of the bytes when there were bytes
C26_TrueMeansDownloadedAndSaved ==
    (ImgDone /\ img_result = Return(TRUE)) =>
        /\ \E i \in DOMAIN img_calls : img_calls[i] = <<"files.download", file_id.s>>
        /\ Row(1) = dream_instance
        /\ image_bytes.s # "" =>
               Row(1).image_base64 =
                   Text("data:image/png;base64," \o b64encode(image_bytes.s))


---------------------------------------------------------------------------
(* claims on SpecDisconnect *)

\* C30: when the client disconnects while a streamed submission is in
\* progress, the pipeline is not halted: the remaining stages run, so that
\* once the generator is over it has reached its last event, 'complete' or
\* 'error'.
C30_DisconnectDoesNotHalt ==
    (stream # "open" /\ Ended) =>
        EndedWith("complete") \/ EndedWith("error")

\* the generator was closed after the image event: the Dream is in the
\* table, interpret_dream was never called
C30_HaltedBeforeInterpretation ==
    /\ stream = "generator_closed"
    /\ Exists(dream)
    /\ ~Called("interpret_dream")
    /\ LoadsOrEmpty(Row(dream).interpretation_json) = Dict(<<>>)

\* what does hold: the pipeline runs to its last event whenever the server
\* goes on iterating the response
C30_RunsOnWhileIterated ==
    (stream # "generator_closed" /\ Ended) =>
        EndedWith("complete") \/ EndedWith("error")


---------------------------------------------------------------------------
(* claims on SpecStats *)

\* the rows of the table that `user` owns
OwnRows(user) == {d \in dreams : d.user = user}

Asked == stats # None

\* C27: for a user without a record, get_profil_onirique_stats returns its
\* fixed structure of placeholders with every percentage 0; for a user or a
\* window without a record, the filtered statistics return their empty
\* structures, every percentage 0; none of them raises.
C27_EmptyStructures ==
    Asked =>
        /\ stats.result.profil.do = "return"
        /\ OwnRows(stats.user) = {} =>
               stats.result.profil.value =
                   [statut_reveuse |-> "silence onirique",
                    pourcentage_reveuse |-> 0,
                    label_reveuse |-> "rêves enregistrés",
                    emotion_dominante |-> Text("émotion endormie"),
                    emotion_dominante_percentage |-> 0,
                    thematique_recurrente |-> "Pas encore de données",
                    thematique_percentage |-> 0]
        /\ \A w \in Windows :
               /\ stats.result.filtered[w].types.do = "return"
               /\ stats.result.filtered[w].emotions.do = "return"
               /\ get_date_filter_queryset(stats.user, w.period, w.start_date,
                                           w.end_date) = {} =>
                      /\ stats.result.filtered[w].types.value =
                             [percentages |-> [t \in {"rêve", "cauchemar"} |-> 0],
                              counts |-> [t \in {"rêve", "cauchemar"} |-> 0],
                              total |-> 0]
                      /\ stats.result.filtered[w].emotions.value =
                             [percentages |-> <<>>, counts |-> <<>>, total |-> 0]
                      /\ stats.result.filtered[w].type_timeline = <<>>
                      /\ stats.result.filtered[w].emotions_timeline =
                             [timeline |-> <<>>, emotions |-> {}]

\* the statistics of a user without a record, in a table that holds records
\* of somebody else
C27_Witness ==
    /\ Asked
    /\ OwnRows(stats.user) = {}
    /\ dreams # {}
    /\ stats.result.profil.value.statut_reveuse = "silence onirique"
    /\ \A w \in Windows : stats.result.filtered[w].types.value.total = 0

CountOf(rows, type) == Cardinality({d \in rows : d.dream_type = Text(type)})

\* p is num / den in percent, rounded to the nearest integer
IsPercentOf(p, num, den) ==
    LET twice == 200 * num - 2 * p * den
    IN  -den <= twice /\ twice <= den

\* C28: with at least one record, get_profil_onirique_stats reports 'âme
\* rêveuse' exactly when count(rêve) >= count(cauchemar), with the rounded
\* percentage of the majority type in the total, and a most frequent
\* dominant_emotion with its rounded percentage of the total.
C28_MajorityAndDominantEmotion ==
    (Asked /\ OwnRows(stats.user) # {}) =>
        LET rows == OwnRows(stats.user)
            total == Cardinality(rows)
            reves == CountOf(rows, "rêve")
            cauchemars == CountOf(rows, "cauchemar")
            profil == stats.result.profil.value
            With(e) == Cardinality({d \in rows : d.dominant_emotion = e})
        IN  /\ stats.result.profil.do = "return"
            /\ profil.statut_reveuse \in {"âme rêveuse", "en proie aux cauchemars"}
            /\ profil.statut_reveuse = "âme rêveuse" <=> reves >= cauchemars
            /\ reves >= cauchemars =>
                   /\ profil.label_reveuse = "rêves"
                   /\ IsPercentOf(profil.pourcentage_reveuse, reves, total)
            /\ reves < cauchemars =>
                   /\ profil.label_reveuse = "cauchemars"
                   /\ IsPercentOf(profil.pourcentage_reveuse, cauchemars, total)
            /\ \A d \in rows : With(d.dominant_emotion) <= With(profil.emotion_dominante)
            /\ With(profil.emotion_dominante) > 0
            /\ IsPercentOf(profil.emotion_dominante_percentage,
                           With(profil.emotion_dominante), total)

\* three 'rêve' and one 'cauchemar' with the emotions joie, joie, tristesse,
\* peur: 75 % and joie at 50 %
C28_Witness ==
    /\ Asked
    /\ LET rows == OwnRows(stats.user)
       IN  /\ Cardinality(rows) = 4
           /\ CountOf(rows, "rêve") = 3
           /\ Cardinality({d \in rows : d.dominant_emotion = Text("joie")}) = 2
           /\ \E d \in rows : d.dominant_emotion = Text("tristesse")
    /\ stats.result.profil.value.statut_reveuse = "âme rêveuse"
    /\ stats.result.profil.value.pourcentage_reveuse = 75
    /\ stats.result.profil.value.emotion_dominante = Text("joie")
    /\ stats.result.profil.value.emotion_dominante_percentage = 50

\* C29: every statistics function computes its result from the records of
\* the given user only: whatever records other users have created, changed
\* or deleted since a user was given their statistics, in any order, the
\* functions still give this user the same results.
C29_OwnRowsOnly ==
    Asked => stats.result = AllStats(stats.user)

\* a user holding records was given their statistics, and the other user has
\* created a record since, which is in the table
C29_Witness ==
    /\ Asked
    /\ Cardinality(OwnRows(stats.user)) >= 2
    /\ stats.result.profil.value.thematique_recurrente # "Aucune récurrence détectée"
    /\ \E d \in dreams : d.user # stats.user /\ d.id >= stats.asked_at

---------------------------------------------------------------------------
(* claims on SpecStats: the recurring themes *)

\* the themes that the transcripts of DreamKinds speak of, read off the texts
MentionedThemes(text) ==
    CASE text = "Je prenais le train avec ma mère" -> {"voyage", "famille"}
      [] text = "Un voyageur avec sa valise à la gare" -> {"voyage"}
      [] text = "Mon père criait sur un dossier" -> {"famille", "travail"}
      [] OTHER -> {}

ThemeNames == {"voyage", "famille", "travail"}

Capitalized(theme) ==
    CASE theme = "voyage" -> "Voyage"
      [] theme = "famille" -> "Famille"
      [] theme = "travail" -> "Travail"

\* the rows of `user` with a transcription that is not empty
Transcribed(user) == {d \in OwnRows(user) : d.transcription # ""}

\* in how many dreams of `user` the theme is present
DocumentFrequency(user, theme) ==
    Cardinality({d \in Transcribed(user) : theme \in MentionedThemes(d.transcription)})

\* C36: with fewer than 2 transcribed dreams the result is 'Pas encore de
\* données' with percentage 0; with no theme present in 2 dreams or more it
\* is 'Aucune récurrence détectée' with percentage 0; otherwise the top
\* theme is present in 2 dreams or more and in no fewer dreams than any
\* other theme, and its percentage is its share of the dreams, 100 at most.
C36_RecurringThemes ==
    Asked =>
        LET user == stats.user
            themes == stats.result.themes
            total == Cardinality(Transcribed(user))
        IN  /\ themes.total_dreams = total
            /\ IF total < 2
               THEN themes.top_theme = "Pas encore de données" /\ themes.percentage = 0
               ELSE IF \A t \in ThemeNames : DocumentFrequency(user, t) < 2
               THEN /\ themes.top_theme = "Aucune récurrence détectée"
                    /\ themes.percentage = 0
               ELSE \E t \in ThemeNames :
                        /\ themes.top_theme = Capitalized(t)
                        /\ DocumentFrequency(user, t) >= 2
                        /\ \A other \in ThemeNames :
                               DocumentFrequency(user, other) <= DocumentFrequency(user, t)
                        /\ themes.percentage =
                               RoundHalfEven(1000 * DocumentFrequency(user, t), total)
                        /\ themes.percentage <= 1000

\* a top theme present in some dreams of the user and not in all, one of the
\* dreams holding three words of it
C36_Witness ==
    /\ Asked
    /\ stats.result.themes.top_theme = "Voyage"
    /\ stats.result.themes.percentage \in 1..999
    /\ \E d \in OwnRows(stats.user) :
           d.transcription = "Un voyageur avec sa valise à la gare"

\* the two results without a theme are given too
C36_NoRecurrence ==
    /\ Asked
    /\ Cardinality(OwnRows(stats.user)) >= 2
    /\ stats.result.themes.top_theme = "Aucune récurrence détectée"

---------------------------------------------------------------------------
(* claims on Spec: exceptions of the provider, the terminal event *)

\* safe_mistral_call re-raised an error that is not recoverable and the
\* pipeline has taken it
CriticalErrorTaken == smc_raised # "" /\ smc_pc = "idle"

ErrorEvents == {i \in DOMAIN events : events[i].step = "error"}

C37_DuringEmotions ==
    /\ CriticalErrorTaken
    /\ stage_calls[Len(stage_calls)] = "analyze_emotions"
    /\ Steps(events) = <<"transcription", "error">>

\* the places of the terminal events among the events sent
TerminalEvents == {i \in DOMAIN events : events[i].step \in {"error", "complete"}}

\* C39: a submission that has ended has sent exactly one terminal event,
\* error or complete; at any time a terminal event is the last event sent
\* and the submission is over with it, so that nothing follows an error and
\* complete is never sent after one.
C39_OneTerminalEventLast ==
    /\ \A i \in TerminalEvents : i = Len(events) /\ Ended
    /\ Ended => Cardinality(TerminalEvents) = 1

\* a submission ended by an error as its fourth event, interpret_dream
\* having returned None
C39_Witness ==
    /\ Ended
    /\ smc_raised = ""
    /\ Steps(events) = <<"transcription", "emotions", "image", "error">>
    /\ TerminalEvents = {4}

\* and one ended by complete
C39_EndedByComplete ==
    /\ Ended
    /\ Steps(events) = <<"transcription", "emotions", "image", "interpretation", "complete">>
    /\ TerminalEvents = {5}

---------------------------------------------------------------------------
(* claims on SpecCall: the fallback table *)

NoRepeat(s) == \A i, j \in DOMAIN s : s[i] = s[j] => i = j

\* C31: every model the table lists as a fallback is a key of the table;
\* the chain of every key (the key, then its list) ends with a model whose
\* own list is empty; the attempt sequence of a call holds no model twice,
\* and is the primary model alone when the table does not know it.
C31_FallbackTable ==
    /\ \A k \in DOMAIN fallback_chain :
           /\ \A i \in DOMAIN fallback_chain[k] :
                  fallback_chain[k][i] \in DOMAIN fallback_chain
           /\ LET chain == <<k>> \o fallback_chain[k]
              IN  fallback_chain[chain[Len(chain)]] = <<>>
           /\ NoRepeat(<<k>> \o fallback_chain[k])
    /\ smc_pc # "idle" =>
           /\ NoRepeat(models_to_try)
           /\ models_to_try[1] = model
           /\ model \notin DOMAIN fallback_chain => models_to_try = <<model>>
           /\ NoRepeat(calls)

\* a call entered with a model the table does not know has ended after its
\* one attempt
C31_Witness ==
    /\ smc_pc \in {"returned", "raised"}
    /\ model \notin DOMAIN fallback_chain
    /\ calls = <<model>>

---------------------------------------------------------------------------
(* claims on SpecWindows *)

\* the window that was asked and what the functions gave for it
Served == stats # None

\* the calendar day of a row, written as the timelines write it
DayOf(d) == strftime(d.created_at)

\* the dates of the windows that are days of the calendar written YYYY-MM-DD
CalendarDays == {"2025-01-01", "2025-02-08"}

\* the days from 1 January of year 1 of the dates above and of the days rows
\* are created on
DayNumber(text) ==
    CASE text = "2025-01-01" -> 739252
      [] text = "2025-02-08" -> 739290
      [] text = "2025-03-10" -> 739320

\* the rows of `user` created from the day `first` to the day `last`, both
\* included, at any hour
OwnRowsBetween(user, first, last) ==
    {d \in OwnRows(user) :
        DayNumber(first) <= DayNumber(DayOf(d)) /\ DayNumber(DayOf(d)) <= DayNumber(last)}

\* C32: a window asked with two dates and a named period holds the rows of
\* the user created between the two dates, as it does with the same dates
\* and any other period, and the timelines are those of these rows.
C32_DatesOverridePeriod ==
    (/\ Served
     /\ stats.start_date \in CalendarDays /\ stats.end_date \in CalendarDays
     /\ stats.period # "")
    => /\ stats.rows = OwnRowsBetween(stats.user, stats.start_date, stats.end_date)
       /\ \A w \in DatedWindows :
              (w.start_date = stats.start_date /\ w.end_date = stats.end_date)
              => /\ get_date_filter_queryset(stats.user, w.period, w.start_date,
                                             w.end_date) = stats.rows
                 /\ get_dream_type_timeline_filtered(stats.user, w.period,
                        w.start_date, w.end_date) = stats.type_timeline
                 /\ get_emotions_timeline_filtered(stats.user, w.period,
                        w.start_date, w.end_date) = stats.emotions_timeline

\* a window asked with two dates and the period 'month', which alone would
\* have given other rows
C32_Witness ==
    /\ Served
    /\ stats.period = "month"
    /\ stats.start_date = "2025-01-01" /\ stats.end_date = "2025-02-08"
    /\ stats.rows # {}
    /\ stats.rows # OwnRows(stats.user)
    /\ \E d \in OwnRows(stats.user) \ stats.rows :
           HalfDays(d.created_at) >= HalfDays(now) - 60
    /\ \E d \in stats.rows : HalfDays(d.created_at) < HalfDays(now) - 60

\* the dates of a timeline, in its order
TimelineDates(timeline) == [i \in DOMAIN timeline |-> timeline[i].date]

\* one entry for each day of the rows, the earlier day first
OnePerDayAscending(timeline, rows) ==
    /\ {timeline[i].date : i \in DOMAIN timeline} = {DayOf(d) : d \in rows}
    /\ \A i, j \in DOMAIN timeline :
           i < j => DayNumber(timeline[i].date) < DayNumber(timeline[j].date)

C40_FallbackToPeriod ==
    Served =>
        /\ stats.rows \subseteq OwnRows(stats.user)
        /\ IF stats.start_date \in CalendarDays /\ stats.end_date \in CalendarDays
           THEN stats.rows =
                    OwnRowsBetween(stats.user, stats.start_date, stats.end_date)
           ELSE IF stats.period = "month"
           THEN stats.rows =
                    {d \in OwnRows(stats.user) :
                        HalfDays(d.created_at) >= HalfDays(now) - 60}
           ELSE stats.rows = OwnRows(stats.user)

\* a window asked with a date that is no day of the calendar and the period
\* 'month': the period has kept some rows of the user and left others, the
\* other user having rows too
C40_Witness ==
    /\ Served
    /\ stats.period = "month"
    /\ stats.start_date = "2025-02-30" /\ stats.end_date = "2025-02-08"
    /\ stats.rows # {}
    /\ stats.rows # OwnRows(stats.user)
    /\ \E d \in dreams : d.user # stats.user

---------------------------------------------------------------------------
(* claims on SpecRecord *)

WasRead == fn_pc = "done" /\ fn \in Properties

EmptyMapping == Return(Dict(<<>>))

\* texts of StoredTexts that are JSON values
JsonTexts == {Text("{}"), Text("{\"joie\": 0.8, \"peur\": 0.2}")}

C35_RoundTrip ==
    (WasRead /\ fn_input.given # NotGiven) =>
        IF fn_input.given.kind = "dict"
        THEN fn_outcome = Return(fn_input.given)
        ELSE fn_input.text = None /\ fn_outcome = EmptyMapping

\* a mapping with escaped characters and nested values was read back from a
\* Dream saved and loaded again
C35_Witness ==
    /\ WasRead
    /\ fn_input.via = "reloaded"
    /\ fn_input.given.kind = "dict"
    /\ Len(fn_input.given.items) = 4
    /\ fn_outcome = Return(fn_input.given)

\* a str was given, and the property read as the empty mapping, after a save
\* and a reload
C35_ClearedByNonMapping ==
    /\ WasRead
    /\ fn_input.via = "reloaded"
    /\ fn_input.given = Text("string_instead_of_dict")
    /\ fn_input.text = None
    /\ fn_outcome = EmptyMapping

---------------------------------------------------------------------------
(* claims on SpecTranscribe: when the secondary transport is called *)

\* the primary loop ran and is over
PrimaryLoopLeft == PrimaryOver /\ primary_calls # <<>>

NoPrimarySucceeded == \A i \in DOMAIN primary_calls : ~primary_calls[i].ok

\* the call is past the point where the secondary transport is called
PastSecondary == tr_pc \in {"finally", "done"}

C38_StoppedAtFirst ==
    /\ TrDone
    /\ Len(primary_calls) = 1
    /\ ~primary_calls[1].ok
    /\ ~_is_retryable_transcription_error(primary_calls[1].error)
    /\ Len(secondary_calls) = 1
    /\ sleeps = <<>>

\* a call that made no primary attempt at all: the secondary transport is
\* not called either
C38_NoAttemptNoSecondary ==
    /\ TrDone
    /\ primary_calls = <<>>
    /\ secondary_calls = <<>>

=============
